---------------------------- MODULE Spec2Model ----------------------------
(***************************************************************************)
(* Model of the text-to-record extraction core of ESIC_Extractor           *)
(* (src/esic.py): the ECR contribution-history extractor                   *)
(* (extract_esic_data, parse_employee_row_improved) and the challan        *)
(* extractor (class ESICChallanExtractor).                                 *)
(*                                                                         *)
(* Texts are TLA+ strings.  Python's re module is modelled by a small      *)
(* backtracking matcher over regex syntax trees (ReEnds, RePath,           *)
(* ReSearch): it returns what re.search returns, the leftmost match whose  *)
(* choices are the first to succeed in priority order, so that capture     *)
(* groups hold what the code sees.  Offsets are 0-based as in Python.      *)
(***************************************************************************)
EXTENDS Integers, Sequences, FiniteSets, TLC

(***************************************************************************)
(* Characters and Python's str methods                                     *)
(***************************************************************************)
UpperChars == "ABCDEFGHIJKLMNOPQRSTUVWXYZ"
LowerChars == "abcdefghijklmnopqrstuvwxyz"
DigitChars == "0123456789"

\* s[i] with i 1-based; "" outside the string
At(s, i) == IF i >= 1 /\ i <= Len(s) THEN SubSeq(s, i, i) ELSE ""

CharSet(s) == { SubSeq(s, i, i) : i \in 1..Len(s) }

Upper == CharSet(UpperChars)
Lower == CharSet(LowerChars)
Digit == CharSet(DigitChars)
Alpha == Upper \cup Lower
\* \s of re, and the characters str.split() and str.strip() treat as blank
Space == {" ", "\t", "\n", "\r", "\f"}
\* \w of re
WordChar == Alpha \cup Digit \cup {"_"}

IndexIn(c, s) == CHOOSE i \in 1..Len(s) : SubSeq(s, i, i) = c

LowerTable == [c \in Upper |-> At(LowerChars, IndexIn(c, UpperChars))]
UpperTable == [c \in Lower |-> At(UpperChars, IndexIn(c, LowerChars))]

\* one character in lower case, in upper case
LowerC(c) == IF c \in Upper THEN LowerTable[c] ELSE c
UpperC(c) == IF c \in Lower THEN UpperTable[c] ELSE c

\* The operators over the characters of a text halve it instead of walking it,
\* which keeps the depth of evaluation logarithmic in its length.
RECURSIVE StrLower(_)
\* str.lower()
StrLower(s) ==
    IF Len(s) <= 1 THEN LowerC(s)
    ELSE LET h == Len(s) \div 2
         IN  StrLower(SubSeq(s, 1, h)) \o StrLower(SubSeq(s, h + 1, Len(s)))

\* str.capitalize(): first character upper-cased, the rest lower-cased
StrCapitalize(s) == IF s = "" THEN "" ELSE UpperC(Head(s)) \o StrLower(Tail(s))

Min(ns) == CHOOSE n \in ns : \A m \in ns : n <= m
Max(ns) == CHOOSE n \in ns : \A m \in ns : n >= m

\* the members of a set of numbers in increasing order
Sorted(ns) ==
    [n \in 1..Cardinality(ns) |->
        CHOOSE p \in ns : Cardinality({q \in ns : q < p}) = n - 1]

\* str.strip()
Strip(s) ==
    LET Kept(keep) == IF keep = {} THEN "" ELSE SubSeq(s, Min(keep), Max(keep))
    IN  Kept({ i \in 1..Len(s) : At(s, i) \notin Space })

\* needle in s
Contains(s, needle) ==
    \E i \in 0..(Len(s) - Len(needle)) : SubSeq(s, i + 1, i + Len(needle)) = needle

\* s.startswith(prefix)
StartsWith(s, prefix) ==
    Len(prefix) <= Len(s) /\ SubSeq(s, 1, Len(prefix)) = prefix

\* str.isdigit(), and any(c.isalpha() ...), any(c.isdigit() ...)
IsDigitStr(s) == s # "" /\ \A i \in 1..Len(s) : At(s, i) \in Digit
HasAlpha(s) == \E i \in 1..Len(s) : At(s, i) \in Alpha
HasDigit(s) == \E i \in 1..Len(s) : At(s, i) \in Digit

\* the pieces of s between the characters of seps, empty pieces kept
SplitOn(s, seps) ==
    LET Pieces(cuts) ==
            [n \in 1..(Len(cuts) + 1) |->
                SubSeq(s, IF n = 1 THEN 1 ELSE cuts[n - 1] + 1,
                          IF n > Len(cuts) THEN Len(s) ELSE cuts[n] - 1)]
    IN  Pieces(Sorted({ i \in 1..Len(s) : At(s, i) \in seps }))

\* str.split('\n')
SplitLines(s) == SplitOn(s, {"\n"})

\* str.split(): runs of blanks separate, no empty pieces
Split(s) == SelectSeq(SplitOn(s, Space), LAMBDA p : p # "")

RECURSIVE Join(_, _)
\* sep.join(parts)
Join(parts, sep) ==
    IF parts = <<>> THEN ""
    ELSE IF Len(parts) = 1 THEN parts[1]
    ELSE parts[1] \o sep \o Join(Tail(parts), sep)

RECURSIVE Replace(_, _, _)
\* str.replace(c, to) for a one-character c
Replace(s, c, to) ==
    IF Len(s) = 0 THEN ""
    ELSE IF Len(s) = 1 THEN (IF s = c THEN to ELSE s)
    ELSE LET h == Len(s) \div 2
         IN  Replace(SubSeq(s, 1, h), c, to) \o Replace(SubSeq(s, h + 1, Len(s)), c, to)

\* the sequence without its repeats, first occurrences kept
Dedup(q) ==
    LET Kept(keep) == [n \in 1..Len(keep) |-> q[keep[n]]]
    IN  Kept(Sorted({ i \in 1..Len(q) : \A j \in 1..(i - 1) : q[j] # q[i] }))

RECURSIVE Flatten(_, _, _)
\* qs[lo] \o ... \o qs[hi]
Flatten(qs, lo, hi) ==
    IF lo > hi THEN <<>>
    ELSE IF lo = hi THEN qs[lo]
    ELSE LET h == (lo + hi) \div 2
         IN  Flatten(qs, lo, h) \o Flatten(qs, h + 1, hi)

(***************************************************************************)
(* Regular expressions: syntax trees                                       *)
(***************************************************************************)
Lit(str) == [k |-> "lit", s |-> str]
Cls(cs) == [k |-> "cls", set |-> cs, neg |-> FALSE]
NotCls(cs) == [k |-> "cls", set |-> cs, neg |-> TRUE]
Cat(rs) == [k |-> "cat", rs |-> rs]
Alt(rs) == [k |-> "alt", rs |-> rs]
\* r{lo,hi}, greedy
Rep(r, lo, hi) ==
    [k |-> "rep", r |-> r, lo |-> lo, hi |-> hi, open |-> FALSE, greedy |-> TRUE]
\* r{lo,}, greedy
AtLeast(r, lo) ==
    [k |-> "rep", r |-> r, lo |-> lo, hi |-> lo, open |-> TRUE, greedy |-> TRUE]
\* r*?
LazyStar(r) ==
    [k |-> "rep", r |-> r, lo |-> 0, hi |-> 0, open |-> TRUE, greedy |-> FALSE]
Star(r) == AtLeast(r, 0)
Plus(r) == AtLeast(r, 1)
Opt(r) == Rep(r, 0, 1)
Bol == [k |-> "bol"]
Eol == [k |-> "eol"]
WordB == [k |-> "wordb"]
\* . (no DOTALL): anything but a line feed
Dot == NotCls({"\n"})
Dg == Cls(Digit)
Ws == Cls(Space)
AZ == Cls(Upper)
AZaz == Cls(Alpha)
AZ09 == Cls(Upper \cup Digit)

\* does character c match class r; ic is re.IGNORECASE
ClsHas(r, c, ic) ==
    LET in == c \in r.set \/ (ic /\ (LowerC(c) \in r.set \/ UpperC(c) \in r.set))
    IN  IF r.neg THEN ~in ELSE in

\* is str at offset i of s (its first character is compared first)
LitAt(str, s, i, ic) ==
    /\ i + Len(str) <= Len(s)
    /\ LET t == SubSeq(s, i + 1, i + Len(str))
       IN  IF ic
           THEN /\ LowerC(At(t, 1)) = LowerC(At(str, 1))
                /\ StrLower(t) = StrLower(str)
           ELSE t = str

RECURSIVE ReEnds(_, _, _, _)
RECURSIVE CatEnds(_, _, _, _, _)
RECURSIVE RepEnds(_, _, _, _, _)

\* r.r is one character class: the run of matching characters from offset i
\* gives every end at once
ClsRepEnds(r, s, i, ic) ==
    LET Ends(most, cnt) ==
            IF cnt <= 0 THEN <<>>
            ELSE IF r.greedy THEN [n \in 1..cnt |-> i + most - (n - 1)]
            ELSE [n \in 1..cnt |-> i + r.lo + (n - 1)]
        Most(most) == Ends(most, most - r.lo + 1)
        Run(run) == Most(IF r.open \/ run < r.hi THEN run ELSE r.hi)
        Stop(stop) == Run(stop - 1 - i)
    IN  Stop(Min({ j \in (i + 1)..(Len(s) + 1) :
                     j = Len(s) + 1 \/ ~ClsHas(r.r, At(s, j), ic) }))

\* The offsets at which a match of r that starts at offset i of s can end, in
\* the order re's backtracking tries them, each offset once.
ReEnds(r, s, i, ic) ==
    CASE r.k = "lit" -> IF LitAt(r.s, s, i, ic) THEN <<i + Len(r.s)>> ELSE <<>>
      [] r.k = "cls" -> IF i < Len(s) /\ ClsHas(r, At(s, i + 1), ic)
                        THEN <<i + 1>> ELSE <<>>
      [] r.k = "cat" -> CatEnds(r.rs, 1, s, <<i>>, ic)
      [] r.k = "alt" ->
           Dedup(Flatten([n \in 1..Len(r.rs) |-> ReEnds(r.rs[n], s, i, ic)],
                         1, Len(r.rs)))
      [] r.k = "rep" -> IF r.r.k = "cls" THEN ClsRepEnds(r, s, i, ic)
                        ELSE Dedup(RepEnds(r, s, i, 0, ic))
      [] r.k = "bol" -> IF i = 0 THEN <<i>> ELSE <<>>
      [] r.k = "eol" -> IF i = Len(s) \/ (i = Len(s) - 1 /\ At(s, Len(s)) = "\n")
                        THEN <<i>> ELSE <<>>
      [] r.k = "wordb" -> IF (At(s, i) \in WordChar) # (At(s, i + 1) \in WordChar)
                          THEN <<i>> ELSE <<>>

\* the ends of rs[n..] started at each offset of from, in order
CatEnds(rs, n, s, from, ic) ==
    IF n > Len(rs) THEN from
    ELSE CatEnds(rs, n + 1, s,
                 Dedup(Flatten([j \in 1..Len(from) |-> ReEnds(rs[n], s, from[j], ic)],
                               1, Len(from))),
                 ic)

\* r.r repeated: done times so far, now at offset i
RepEnds(r, s, i, done, ic) ==
    LET Both(more, stop) == IF r.greedy THEN more \o stop ELSE stop \o more
        More(ends) ==
            Both(Flatten([n \in 1..Len(ends) |-> RepEnds(r, s, ends[n], done + 1, ic)],
                         1, Len(ends)),
                 IF done >= r.lo THEN <<i>> ELSE <<>>)
    IN  More(IF ~r.open /\ done >= r.hi THEN <<>>
             ELSE SelectSeq(ReEnds(r.r, s, i, ic), LAMBDA e : e # i))

RECURSIVE RePath(_, _, _, _, _)
RECURSIVE RePathOver(_, _, _, _, _, _, _, _)

\* A pattern is a sequence of parts, its capture groups among them.  RePath is
\* the first way, in backtracking order, to match parts[n..] from offset i:
\* the offsets <<i, end of parts[n], end of parts[n+1], ...>>, or <<>>.
RePath(parts, n, s, i, ic) ==
    IF n > Len(parts) THEN <<i>>
    ELSE LET Over(ends) == RePathOver(parts, n, s, i, ends, 1, Len(ends), ic)
         IN  Over(ReEnds(parts[n], s, i, ic))

\* the first of ends[lo..hi] from which the rest of the pattern matches
RePathOver(parts, n, s, i, ends, lo, hi, ic) ==
    IF lo > hi THEN <<>>
    ELSE IF lo = hi
    THEN LET Rest(rest) == IF rest # <<>> THEN <<i>> \o rest ELSE <<>>
         IN  Rest(RePath(parts, n + 1, s, ends[lo], ic))
    ELSE LET First(first, h) ==
                 IF first # <<>> THEN first
                 ELSE RePathOver(parts, n, s, i, ends, h + 1, hi, ic)
         IN  First(RePathOver(parts, n, s, i, ends, lo, (lo + hi) \div 2, ic),
                   (lo + hi) \div 2)

RECURSIVE ReSearchIn(_, _, _, _, _)
\* the path of the leftmost match that starts at an offset in lo..hi, or <<>>
ReSearchIn(parts, s, lo, hi, ic) ==
    IF lo > hi THEN <<>>
    ELSE IF lo = hi THEN RePath(parts, 1, s, lo, ic)
    ELSE LET First(first, h) ==
                 IF first # <<>> THEN first ELSE ReSearchIn(parts, s, h + 1, hi, ic)
         IN  First(ReSearchIn(parts, s, lo, (lo + hi) \div 2, ic), (lo + hi) \div 2)

\* re.search
ReSearch(parts, s, ic) == ReSearchIn(parts, s, 0, Len(s), ic)

\* re.match: anchored at offset 0
ReMatch(parts, s, ic) == RePath(parts, 1, s, 0, ic)

\* the text matched by part n of a match path p
Group(s, p, n) == SubSeq(s, p[n] + 1, p[n + 1])

RECURSIVE ReFindAllFrom(_, _, _, _)
\* re.findall for a pattern without groups: the non-overlapping matches, left
\* to right
ReFindAllFrom(parts, s, from, ic) ==
    LET Span(b, e) ==
            <<SubSeq(s, b + 1, e)>>
            \o ReFindAllFrom(parts, s, IF e = b THEN e + 1 ELSE e, ic)
        Found(p) == IF p = <<>> THEN <<>> ELSE Span(p[1], p[Len(p)])
    IN  Found(ReSearchIn(parts, s, from, Len(s), ic))

ReFindAll(parts, s, ic) == ReFindAllFrom(parts, s, 0, ic)

(***************************************************************************)
(* Python values                                                           *)
(***************************************************************************)
\* None, and a dict with no key; a value that may be None is <<v>> when set
None == <<>>
Some(v) == <<v>>
Val(o) == o[1]

\* dict.get(key, default)
Get(d, key, default) == IF key \in DOMAIN d THEN d[key] ELSE default
\* d[key] = v
Put(d, key, v) == (key :> v) @@ d

(***************************************************************************)
(* Numbers.  A Python number is modelled by the decimal notation of its    *)
(* value: an int as "15000", a float as "15000.0" (digits after the point  *)
(* kept exactly, trailing zeros dropped, -0.0 written "0.0"), and the      *)
(* floats that are no numbers as "inf", "-inf" and "nan".  float()'s       *)
(* rounding to 53 bits is not modelled; its overflow to inf is.            *)
(***************************************************************************)
RECURSIVE DropLeadingZeros(_)
DropLeadingZeros(s) ==
    IF Len(s) > 1 /\ Head(s) = "0" THEN DropLeadingZeros(Tail(s)) ELSE s

RECURSIVE DropTrailingZeros(_)
DropTrailingZeros(s) ==
    IF Len(s) > 1 /\ At(s, Len(s)) = "0"
    THEN DropTrailingZeros(SubSeq(s, 1, Len(s) - 1)) ELSE s

AllDigits(s) == \A i \in 1..Len(s) : At(s, i) \in Digit

\* the digits of a float literal: digits with single underscores between them
IsDigitPart(s) ==
    /\ s # ""
    /\ \A i \in 1..Len(s) : At(s, i) \in Digit \cup {"_"}
    /\ At(s, 1) # "_" /\ At(s, Len(s)) # "_"
    /\ \A i \in 1..(Len(s) - 1) : ~(At(s, i) = "_" /\ At(s, i + 1) = "_")

RECURSIVE NatOf(_)
\* the number a string of digits writes
NatOf(s) ==
    IF s = "" THEN 0
    ELSE NatOf(SubSeq(s, 1, Len(s) - 1)) * 10 + (IndexIn(At(s, Len(s)), DigitChars) - 1)

\* an exponent of 5 digits or more is beyond every float, whatever the mantissa
ExponentCap == 10000

\* the exponent that the digits d write after sign, capped
ExponentOf(sign, d) ==
    LET Capped(z) == IF Len(z) > 4 THEN ExponentCap ELSE NatOf(z)
    IN  (IF sign = "-" THEN -1 ELSE 1) * Capped(DropLeadingZeros(Replace(d, "_", "")))

RECURSIVE Zeros(_)
Zeros(n) ==
    IF n <= 0 THEN "" ELSE IF n = 1 THEN "0"
    ELSE Zeros(n \div 2) \o Zeros(n - (n \div 2))

\* 2^1024 - 2^970: the decimal values from here on are rounded to inf
FloatOverflowAt ==
    "179769313486231580793728971405303415079934132710037826936173778980444968292764750946649017977587207096330286416692887910946555547851940402630657488671505820681908902000708383676273854845817711531764475730270069855571366959622842914819860834936475292719074168444365510704342711559699508093042880177904174497792"

\* a decimal value below 10^-400 is rounded to zero
FloatUnderflowDigits == 400

\* do the digits a write a number at least that of the digits b (no leading
\* zeros in either)
DigitsAtLeast(a, b) ==
    IF Len(a) # Len(b) THEN Len(a) > Len(b)
    ELSE LET Decide(differ) ==
                 differ = {} \/ IndexIn(At(a, Min(differ)), DigitChars)
                                   > IndexIn(At(b, Min(differ)), DigitChars)
         IN  Decide({ i \in 1..Len(a) : At(a, i) # At(b, i) })

\* float(s): [ok, kind, neg, ip, fp] with kind "finite", "inf" or "nan" and,
\* for a finite value, ip and fp its digits before and after the point;
\* ok = FALSE is ValueError.  The literal is blanks, a sign, then inf,
\* infinity or nan in any letter case, or digits with an optional point and
\* an optional exponent.
FloatParse(s0) ==
    LET Bad == [ok |-> FALSE, kind |-> "finite", neg |-> FALSE, ip |-> "", fp |-> ""]
        Special(kind, neg) == [ok |-> TRUE, kind |-> kind, neg |-> neg, ip |-> "", fp |-> ""]
        Finite(neg, ip, fp) ==
            [ok |-> TRUE, kind |-> "finite", neg |-> neg,
             ip |-> DropLeadingZeros(IF ip = "" THEN "0" ELSE ip),
             fp |-> DropTrailingZeros(IF fp = "" THEN "0" ELSE fp)]
        Rounded(neg, ip, fp) ==
            IF DigitsAtLeast(DropLeadingZeros(IF ip = "" THEN "0" ELSE ip), FloatOverflowAt)
            THEN Special("inf", neg) ELSE Finite(neg, ip, fp)
        \* the digits all with the point after the first point of them
        Placed(neg, all, point) ==
            IF point >= Len(all) THEN Rounded(neg, all \o Zeros(point - Len(all)), "")
            ELSE IF point <= 0 THEN Finite(neg, "", Zeros(-point) \o all)
            ELSE Rounded(neg, SubSeq(all, 1, point), SubSeq(all, point + 1, Len(all)))
        Sized(neg, all, point, nonzero) ==
            IF nonzero = {} THEN Finite(neg, "", "")
            ELSE IF point - (Min(nonzero) - 1) > Len(FloatOverflowAt) THEN Special("inf", neg)
            ELSE IF point - (Min(nonzero) - 1) < -FloatUnderflowDigits THEN Finite(neg, "", "")
            ELSE Placed(neg, all, point)
        Shifted(neg, ip, fp, x) ==
            Sized(neg, ip \o fp, Len(ip) + x,
                  { i \in 1..(Len(ip) + Len(fp)) : At(ip \o fp, i) # "0" })
        Digits(neg, ip, fp, x) ==
            IF /\ (ip = "" \/ IsDigitPart(ip)) /\ (fp = "" \/ IsDigitPart(fp))
               /\ ~(ip = "" /\ fp = "")
            THEN Shifted(neg, Replace(ip, "_", ""), Replace(fp, "_", ""), x)
            ELSE Bad
        Point(neg, u, x, dots) ==
            IF Cardinality(dots) > 1 THEN Bad
            ELSE Digits(neg, IF dots = {} THEN u ELSE SubSeq(u, 1, Min(dots) - 1),
                        IF dots = {} THEN "" ELSE SubSeq(u, Min(dots) + 1, Len(u)), x)
        Mantissa(neg, u, x) == Point(neg, u, x, { i \in 1..Len(u) : At(u, i) = "." })
        Exponent(neg, u, sign, d) ==
            IF IsDigitPart(d) THEN Mantissa(neg, u, ExponentOf(sign, d)) ELSE Bad
        SignedExponent(neg, u, e) ==
            IF e # "" /\ Head(e) \in {"-", "+"} THEN Exponent(neg, u, Head(e), Tail(e))
            ELSE Exponent(neg, u, "+", e)
        Split_(neg, u, es) ==
            IF es = {} THEN Mantissa(neg, u, 0)
            ELSE IF Cardinality(es) > 1 THEN Bad
            ELSE SignedExponent(neg, SubSeq(u, 1, Min(es) - 1),
                                SubSeq(u, Min(es) + 1, Len(u)))
        Unsigned(neg, u) ==
            IF StrLower(u) \in {"inf", "infinity"} THEN Special("inf", neg)
            ELSE IF StrLower(u) = "nan" THEN Special("nan", FALSE)
            ELSE Split_(neg, u, { i \in 1..Len(u) : At(u, i) \in {"e", "E"} })
        Signed(s) ==
            Unsigned(s # "" /\ Head(s) = "-",
                     IF s # "" /\ Head(s) \in {"-", "+"} THEN Tail(s) ELSE s)
    IN  Signed(Strip(s0))

\* the value of the float f
FloatRepr(f) ==
    IF f.kind = "nan" THEN "nan"
    ELSE IF f.kind = "inf" THEN (IF f.neg THEN "-inf" ELSE "inf")
    ELSE (IF f.neg /\ ~(f.ip = "0" /\ f.fp = "0") THEN "-" ELSE "") \o f.ip \o "." \o f.fp

\* int(f) for a finite f: truncation toward zero
IntRepr(f) == (IF f.neg /\ f.ip # "0" THEN "-" ELSE "") \o f.ip

\* int(float('inf')) raises OverflowError, which is no ValueError and no
\* TypeError: the call ends with it
OverflowError == "OverflowError"

\* the rupee sign of the patterns, written "$" in the model's texts
Rupee == "$"

SentinelWords == {"not found", "n/a", "error", ""}

safe_numeric_convert(value, is_integer) ==
    IF value = "" \/ value = "-" \/ StrLower(value) \in SentinelWords
    THEN IF is_integer THEN "0" ELSE "0.0"
    ELSE LET Number(f) ==
                 IF ~f.ok THEN IF is_integer THEN "0" ELSE "0.0"
                 ELSE IF ~is_integer THEN FloatRepr(f)
                 ELSE IF f.kind = "nan" THEN "0"
                 ELSE IF f.kind = "inf" THEN OverflowError
                 ELSE IntRepr(f)
             Clean(clean_value) == Number(FloatParse(clean_value))
         IN  Clean(Strip(Replace(value, ",", "")))

\* safe_numeric_convert_challan with the fallback of safe_numeric_convert
safe_numeric_convert_challan_zero(value, is_integer) ==
    safe_numeric_convert(Replace(value, Rupee, ""), is_integer)

\* lines 57-71: the sentinels give zero; a value that float() refuses comes
\* back as it was; the rupee sign is removed before the conversion
safe_numeric_convert_challan(value, is_integer) ==
    IF value = "" \/ StrLower(value) \in SentinelWords
    THEN IF is_integer THEN "0" ELSE "0.0"
    ELSE LET Number(f) ==
                 IF ~f.ok THEN value
                 ELSE IF ~is_integer THEN FloatRepr(f)
                 ELSE IF f.kind = "nan" THEN value
                 ELSE IF f.kind = "inf" THEN OverflowError
                 ELSE IntRepr(f)
             Clean(clean_value) == Number(FloatParse(clean_value))
         IN  Clean(Strip(Replace(Replace(value, Rupee, ""), ",", "")))

(***************************************************************************)
(* ECR: the row field extractor, parse_employee_row_improved               *)
(***************************************************************************)
\* digits of an IP number: \d{10}
IpDigits == 10

\* r'^\d{10}$'
IpTokenRe == <<Bol, Rep(Dg, IpDigits, IpDigits), Eol>>
\* r'^\d+(\.\d{2})?$'
NumericRe == <<Bol, Plus(Dg), Opt(Cat(<<Lit("."), Rep(Dg, 2, 2)>>)), Eol>>
\* r'^(No|Work|Left|Service|Servic|-|Absent)$', re.IGNORECASE
ReasonRe ==
    <<Bol,
      Alt(<<Lit("No"), Lit("Work"), Lit("Left"), Lit("Service"), Lit("Servic"),
            Lit("-"), Lit("Absent")>>),
      Eol>>

\* IsIpToken with the pattern's $ left out
IsIpTokenUnanchored(part) == ReMatch(<<Bol, Rep(Dg, IpDigits, IpDigits)>>, part, FALSE) # <<>>

IsIpToken(part) == ReMatch(IpTokenRe, part, FALSE) # <<>>
IsNumeric(part) == ReMatch(NumericRe, part, FALSE) # <<>>
IsReasonWord(part) == ReMatch(ReasonRe, part, TRUE) # <<>>

RECURSIVE FindIpLast(_, _)
\* FindIp with the loop's break left out: the last such part
FindIpLast(parts, i) ==
    IF i >= Len(parts) THEN -1
    ELSE LET Later(later) ==
                 IF later # -1 THEN later
                 ELSE IF IsIpToken(parts[i + 1]) THEN i ELSE -1
         IN  Later(FindIpLast(parts, i + 1))

RECURSIVE FindIpFromTwo(_, _)
\* FindIp that does not look at the first two parts
FindIpFromTwo(parts, i) ==
    IF i >= Len(parts) THEN -1
    ELSE IF i >= 2 /\ IsIpToken(parts[i + 1]) THEN i
    ELSE FindIpFromTwo(parts, i + 1)

RECURSIVE FindIp(_, _)
\* lines 247-251: the 0-based index of the first part that is exactly 10
\* digits, -1 if there is none
FindIp(parts, i) ==
    IF i >= Len(parts) THEN -1
    ELSE IF IsIpToken(parts[i + 1]) THEN i
    ELSE FindIp(parts, i + 1)

RECURSIVE ClassifyTwoWay(_, _, _, _, _)
\* Classify with a flag that a numeric part or a reason word leaves set
ClassifyTwoWay(parts, i, name_started, name_parts, data_parts) ==
    IF i >= Len(parts) THEN [name_parts |-> name_parts, data_parts |-> data_parts]
    ELSE LET Part(part, clean_part) ==
                 IF IsNumeric(clean_part)
                 THEN ClassifyTwoWay(parts, i + 1, name_started, name_parts,
                               Append(data_parts, clean_part))
                 ELSE IF IsReasonWord(part)
                 THEN ClassifyTwoWay(parts, i + 1, name_started, name_parts, Append(data_parts, part))
                 ELSE IF name_started
                 THEN ClassifyTwoWay(parts, i + 1, name_started, Append(name_parts, part),
                               data_parts)
                 ELSE ClassifyTwoWay(parts, i + 1, name_started, name_parts,
                               Append(data_parts, part))
         IN  Part(parts[i + 1], Replace(parts[i + 1], ",", ""))

RECURSIVE Classify(_, _, _, _, _)
\* lines 265-288: the parts from 0-based index i on, split into the name and
\* the data, with the flag name_started
Classify(parts, i, name_started, name_parts, data_parts) ==
    IF i >= Len(parts) THEN [name_parts |-> name_parts, data_parts |-> data_parts]
    ELSE LET Part(part, clean_part) ==
                 IF IsNumeric(clean_part)
                 THEN Classify(parts, i + 1, FALSE, name_parts,
                               Append(data_parts, clean_part))
                 ELSE IF IsReasonWord(part)
                 THEN Classify(parts, i + 1, FALSE, name_parts, Append(data_parts, part))
                 ELSE IF name_started
                 THEN Classify(parts, i + 1, name_started, Append(name_parts, part),
                               data_parts)
                 ELSE Classify(parts, i + 1, name_started, name_parts,
                               Append(data_parts, part))
         IN  Part(parts[i + 1], Replace(parts[i + 1], ",", ""))

\* ReasonOf that takes one of the two words for both
ReasonOfEither(text_values) ==
    IF text_values = <<>> THEN "-"
    ELSE LET Reason(reason_text) ==
                 IF Contains(reason_text, "No") \/ Contains(reason_text, "Work")
                 THEN "No Work"
                 ELSE IF Contains(reason_text, "Left")
                         /\ (Contains(reason_text, "Service")
                             \/ Contains(reason_text, "Servic"))
                 THEN "Left Service"
                 ELSE IF reason_text # "" /\ reason_text # "-" THEN reason_text
                 ELSE "-"
         IN  Reason(Strip(Join(text_values, " ")))

\* lines 324-334
ReasonOf(text_values) ==
    IF text_values = <<>> THEN "-"
    ELSE LET Reason(reason_text) ==
                 IF Contains(reason_text, "No") /\ Contains(reason_text, "Work")
                 THEN "No Work"
                 ELSE IF Contains(reason_text, "Left")
                         /\ (Contains(reason_text, "Service")
                             \/ Contains(reason_text, "Servic"))
                 THEN "Left Service"
                 ELSE IF reason_text # "" /\ reason_text # "-" THEN reason_text
                 ELSE "-"
         IN  Reason(Strip(Join(text_values, " ")))

\* lines 336-340
WithDecimals(amount) == IF Contains(amount, ".") THEN amount ELSE amount \o ".00"

\* parse_employee_row_improved with the numbers taken by place: the first is
\* the days, the second the wages, the third the contribution
parse_employee_row_by_place(row_text0, summary_info, header_info) ==
    LET Record(sno, is_disable, ip_number, name_parts, numeric_values, text_values, n) ==
            LET days == IF n >= 1 THEN numeric_values[1] ELSE "0"
                wages == IF n >= 2 THEN numeric_values[2] ELSE "0.00"
                contribution == IF n >= 3 THEN numeric_values[3] ELSE "0.00"
            IN  [SNo |-> safe_numeric_convert(sno, TRUE),
                 IsDisable |-> is_disable,
                 IPNumber |-> ip_number,
                 IPName |-> IF name_parts # <<>>
                            THEN Strip(Join(name_parts, " ")) ELSE "UNKNOWN",
                 NoOfDays |-> safe_numeric_convert(days, TRUE),
                 TotalWages |-> safe_numeric_convert(WithDecimals(wages), FALSE),
                 IPContribution |->
                     safe_numeric_convert(WithDecimals(contribution), FALSE),
                 Reason |-> ReasonOf(text_values),
                 Month |-> Get(header_info, "month", "Not Found"),
                 TotalIPContribution |->
                     safe_numeric_convert(Get(summary_info, "total_ip_contribution", ""),
                                          FALSE),
                 TotalEmployerContribution |->
                     safe_numeric_convert(
                         Get(summary_info, "total_employer_contribution", ""), FALSE),
                 TotalContribution |->
                     safe_numeric_convert(Get(summary_info, "total_contribution", ""),
                                          FALSE),
                 TotalGovernmentContribution |->
                     safe_numeric_convert(
                         Get(summary_info, "total_government_contribution", ""), FALSE),
                 TotalMonthlyWages |->
                     safe_numeric_convert(Get(summary_info, "total_monthly_wages", ""),
                                          FALSE)]
        \* lines 363-365: an exception of the conversions gives None
        Caught(record) ==
            IF record.SNo = OverflowError \/ record.NoOfDays = OverflowError
            THEN None ELSE record
        Values(parts, ip_index, name_parts, numeric_values, text_values) ==
            Caught(Record(IF IsDigitStr(parts[1]) THEN parts[1] ELSE "1",
                          parts[ip_index], parts[ip_index + 1],
                          name_parts, numeric_values, text_values, Len(numeric_values)))
        Classified(parts, ip_index, c) ==
            Values(parts, ip_index, c.name_parts,
                   SelectSeq(c.data_parts, IsNumeric),
                   SelectSeq(c.data_parts, LAMBDA part : ~IsNumeric(part)))
        Indexed(parts, ip_index) ==
            IF ip_index < 2 THEN None
            ELSE Classified(parts, ip_index,
                            Classify(parts, ip_index + 1, TRUE, <<>>, <<>>))
        Parts(row_text, parts) ==
            IF row_text = "" THEN None
            ELSE IF Len(parts) < 6 THEN None
            ELSE Indexed(parts, FindIp(parts, 0))
        Row(row_text) == Parts(row_text, Split(row_text))
    IN  Row(Strip(row_text0))

\* the record of a row, or None
parse_employee_row_improved(row_text0, summary_info, header_info) ==
    LET Record(sno, is_disable, ip_number, name_parts, numeric_values, text_values, n) ==
            LET days == IF n >= 3 THEN numeric_values[1] ELSE "0"
                wages == IF n >= 3 THEN numeric_values[2]
                         ELSE IF n = 2 THEN numeric_values[1] ELSE "0.00"
                contribution == IF n >= 3 THEN numeric_values[3]
                                ELSE IF n = 2 THEN numeric_values[2]
                                ELSE IF n = 1 THEN numeric_values[1] ELSE "0.00"
            IN  [SNo |-> safe_numeric_convert(sno, TRUE),
                 IsDisable |-> is_disable,
                 IPNumber |-> ip_number,
                 IPName |-> IF name_parts # <<>>
                            THEN Strip(Join(name_parts, " ")) ELSE "UNKNOWN",
                 NoOfDays |-> safe_numeric_convert(days, TRUE),
                 TotalWages |-> safe_numeric_convert(WithDecimals(wages), FALSE),
                 IPContribution |->
                     safe_numeric_convert(WithDecimals(contribution), FALSE),
                 Reason |-> ReasonOf(text_values),
                 Month |-> Get(header_info, "month", "Not Found"),
                 TotalIPContribution |->
                     safe_numeric_convert(Get(summary_info, "total_ip_contribution", ""),
                                          FALSE),
                 TotalEmployerContribution |->
                     safe_numeric_convert(
                         Get(summary_info, "total_employer_contribution", ""), FALSE),
                 TotalContribution |->
                     safe_numeric_convert(Get(summary_info, "total_contribution", ""),
                                          FALSE),
                 TotalGovernmentContribution |->
                     safe_numeric_convert(
                         Get(summary_info, "total_government_contribution", ""), FALSE),
                 TotalMonthlyWages |->
                     safe_numeric_convert(Get(summary_info, "total_monthly_wages", ""),
                                          FALSE)]
        \* lines 363-365: an exception of the conversions gives None
        Caught(record) ==
            IF record.SNo = OverflowError \/ record.NoOfDays = OverflowError
            THEN None ELSE record
        Values(parts, ip_index, name_parts, numeric_values, text_values) ==
            Caught(Record(IF IsDigitStr(parts[1]) THEN parts[1] ELSE "1",
                          parts[ip_index], parts[ip_index + 1],
                          name_parts, numeric_values, text_values, Len(numeric_values)))
        Classified(parts, ip_index, c) ==
            Values(parts, ip_index, c.name_parts,
                   SelectSeq(c.data_parts, IsNumeric),
                   SelectSeq(c.data_parts, LAMBDA part : ~IsNumeric(part)))
        Indexed(parts, ip_index) ==
            IF ip_index < 2 THEN None
            ELSE Classified(parts, ip_index,
                            Classify(parts, ip_index + 1, TRUE, <<>>, <<>>))
        Parts(row_text, parts) ==
            IF row_text = "" THEN None
            ELSE IF Len(parts) < 6 THEN None
            ELSE Indexed(parts, FindIp(parts, 0))
        Row(row_text) == Parts(row_text, Split(row_text))
    IN  Row(Strip(row_text0))

(***************************************************************************)
(* ECR: extract_month_from_text                                            *)
(***************************************************************************)
month_mapping ==
    [Jan |-> "January", Feb |-> "February", Mar |-> "March", Apr |-> "April",
     May |-> "May", Jun |-> "June", Jul |-> "July", Aug |-> "August",
     Sep |-> "September", Oct |-> "October", Nov |-> "November", Dec |-> "December"]

\* r'for\s+([A-Za-z]{3,9}\d{4})': the group is part 3
MonthRe == <<Lit("for"), Plus(Ws), Cat(<<Rep(AZaz, 3, 9), Rep(Dg, 4, 4)>>)>>
\* r'([A-Za-z]{3,9})'
MonthNameRe == <<Rep(AZaz, 3, 9)>>
\* r'Contribution\s+History.*?for\s+([A-Za-z]+)': the group is part 7
MonthAlt1Re ==
    <<Lit("Contribution"), Plus(Ws), Lit("History"), LazyStar(Dot), Lit("for"),
      Plus(Ws), Plus(AZaz)>>
\* r'ECR\s+Of.*?for\s+([A-Za-z]+)': the group is part 7
MonthAlt2Re ==
    <<Lit("ECR"), Plus(Ws), Lit("Of"), LazyStar(Dot), Lit("for"), Plus(Ws), Plus(AZaz)>>
\* r'Period[:\s]+([A-Za-z]+\s*\d{4})': the group is part 3
MonthAlt3Re ==
    <<Lit("Period"), Plus(Cls(Space \cup {":"})),
      Cat(<<Plus(AZaz), Star(Ws), Rep(Dg, 4, 4)>>)>>
\* r'([A-Za-z]+)'
AlphaRunRe == <<Plus(AZaz)>>

MonthAlternatives ==
    <<[re |-> MonthAlt1Re, group |-> 7], [re |-> MonthAlt2Re, group |-> 7],
      [re |-> MonthAlt3Re, group |-> 3]>>

\* MapMonth with the default "Not Found"
MapMonthOrNotFound(month_name) ==
    IF month_name \in DOMAIN month_mapping THEN month_mapping[month_name]
    ELSE "Not Found"

\* month_mapping.get(month_name, month_name)
MapMonth(month_name) ==
    IF month_name \in DOMAIN month_mapping THEN month_mapping[month_name]
    ELSE month_name

RECURSIVE MonthFromAlternatives(_, _)
\* lines 105-121
MonthFromAlternatives(text, n) ==
    IF n > Len(MonthAlternatives) THEN "Not Found"
    ELSE LET Alpha_(month_part, month_alpha) ==
                 IF month_alpha # <<>>
                 THEN MapMonth(StrCapitalize(Group(month_part, month_alpha, 1)))
                 ELSE MonthFromAlternatives(text, n + 1)
             Part(month_part) ==
                 Alpha_(month_part, ReMatch(AlphaRunRe, month_part, FALSE))
             Match(m, group) ==
                 IF m # <<>> THEN Part(Strip(Group(text, m, group)))
                 ELSE MonthFromAlternatives(text, n + 1)
         IN  Match(ReSearch(MonthAlternatives[n].re, text, TRUE),
                   MonthAlternatives[n].group)

extract_month_from_text(text) ==
    LET Name(period_str, month_match) ==
            IF month_match # <<>>
            THEN MapMonth(StrCapitalize(Group(period_str, month_match, 1)))
            ELSE MonthFromAlternatives(text, 1)
        Period(period_str) == Name(period_str, ReMatch(MonthNameRe, period_str, FALSE))
        Match(m) ==
            IF m # <<>> THEN Period(Group(text, m, 3))
            ELSE MonthFromAlternatives(text, 1)
    IN  Match(ReSearch(MonthRe, text, FALSE))

(***************************************************************************)
(* ECR: the header/summary parser and the row segmenter, the two loops of  *)
(* extract_esic_data over the lines of a page                              *)
(***************************************************************************)
\* r'(ECR Of|Contribution History.*?Of)\s+(\d+)\s+for\s+([A-Za-z]+\d+)':
\* the groups are parts 1, 3 and 7
HeaderRe ==
    <<Alt(<<Lit("ECR Of"), Cat(<<Lit("Contribution History"), LazyStar(Dot), Lit("Of")>>)>>),
      Plus(Ws), Plus(Dg), Plus(Ws), Lit("for"), Plus(Ws), Cat(<<Plus(AZaz), Plus(Dg)>>)>>
\* r'[\d,]+\.?\d*'
AmountRe == <<Plus(Cls(Digit \cup {","})), Opt(Lit(".")), Star(Dg)>>
\* r'^\d+\s+-\s+\d{10}'
RowStartRe == <<Bol, Plus(Dg), Plus(Ws), Lit("-"), Plus(Ws), Rep(Dg, IpDigits, IpDigits)>>
\* r'^\d+'
LeadingIntRe == <<Bol, Plus(Dg)>>

OrganizationName == "Employees' State Insurance Corporation"

\* HeaderStep that keeps a header field once it is set
HeaderStepFirstWins(lines, i, header_info, summary_info) ==
    LET Keep(d, key, v) == IF key \in DOMAIN d THEN d ELSE Put(d, key, v)
        Header(line, match) ==
            IF match # <<>>
            THEN Keep(Keep(Keep(header_info, "establishment_code", Group(line, match, 3)),
                           "period", Group(line, match, 7)),
                      "month", extract_month_from_text(line))
            ELSE header_info
        Line(line) ==
            IF Contains(line, "ECR Of") \/ Contains(line, "Contribution History")
            THEN Header(line, ReSearch(HeaderRe, line, FALSE))
            ELSE IF Contains(line, OrganizationName)
            THEN Keep(header_info, "organization", Strip(line))
            ELSE header_info
    IN  [header_info |-> Line(lines[i + 1]), summary_info |-> summary_info]

\* HeaderStep that takes the totals it finds when there are fewer than five
HeaderStepPartial(lines, i, header_info, summary_info) ==
    LET Header(line, match) ==
            IF match # <<>>
            THEN Put(Put(Put(header_info, "establishment_code", Group(line, match, 3)),
                         "period", Group(line, match, 7)),
                     "month", extract_month_from_text(line))
            ELSE header_info
        Summary(amounts) ==
            IF Len(amounts) >= 5
            THEN [total_ip_contribution |-> amounts[1],
                  total_employer_contribution |-> amounts[2],
                  total_contribution |-> amounts[3],
                  total_government_contribution |-> amounts[4],
                  total_monthly_wages |-> amounts[5]]
            ELSE IF Len(amounts) >= 1
            THEN Put(summary_info, "total_ip_contribution", amounts[1])
            ELSE summary_info
        Line(line, next_line) ==
            IF Contains(line, "ECR Of") \/ Contains(line, "Contribution History")
            THEN [header_info |-> Header(line, ReSearch(HeaderRe, line, FALSE)),
                  summary_info |-> summary_info]
            ELSE IF Contains(line, OrganizationName)
            THEN [header_info |-> Put(header_info, "organization", Strip(line)),
                  summary_info |-> summary_info]
            ELSE IF Contains(line, "Total IP Contribution")
                    /\ Contains(line, "Total Employer Contribution")
            THEN [header_info |-> header_info,
                  summary_info |-> Summary(ReFindAll(AmountRe, next_line, FALSE))]
            ELSE [header_info |-> header_info, summary_info |-> summary_info]
    IN  Line(lines[i + 1], IF i + 1 < Len(lines) THEN lines[i + 2] ELSE "")

\* HeaderStep with the three conditions tried one after the other on every
\* line, each on its own
HeaderStepIndependent(lines, i, header_info, summary_info) ==
    LET Header(line, match) ==
            IF (Contains(line, "ECR Of") \/ Contains(line, "Contribution History"))
               /\ match # <<>>
            THEN Put(Put(Put(header_info, "establishment_code", Group(line, match, 3)),
                         "period", Group(line, match, 7)),
                     "month", extract_month_from_text(line))
            ELSE header_info
        Organization(line, header) ==
            IF Contains(line, OrganizationName)
            THEN Put(header, "organization", Strip(line))
            ELSE header
        Summary(line, amounts) ==
            IF Contains(line, "Total IP Contribution")
               /\ Contains(line, "Total Employer Contribution")
               /\ Len(amounts) >= 5
            THEN [total_ip_contribution |-> amounts[1],
                  total_employer_contribution |-> amounts[2],
                  total_contribution |-> amounts[3],
                  total_government_contribution |-> amounts[4],
                  total_monthly_wages |-> amounts[5]]
            ELSE summary_info
        Line(line, next_line) ==
            [header_info |-> Organization(line, Header(line, ReSearch(HeaderRe, line, FALSE))),
             summary_info |-> Summary(line, ReFindAll(AmountRe, next_line, FALSE))]
    IN  Line(lines[i + 1], IF i + 1 < Len(lines) THEN lines[i + 2] ELSE "")

\* lines 152-175: the accumulator after line i (0-based) of lines
HeaderStep(lines, i, header_info, summary_info) ==
    LET Header(line, match) ==
            IF match # <<>>
            THEN Put(Put(Put(header_info, "establishment_code", Group(line, match, 3)),
                         "period", Group(line, match, 7)),
                     "month", extract_month_from_text(line))
            ELSE header_info
        Summary(amounts) ==
            IF Len(amounts) >= 5
            THEN [total_ip_contribution |-> amounts[1],
                  total_employer_contribution |-> amounts[2],
                  total_contribution |-> amounts[3],
                  total_government_contribution |-> amounts[4],
                  total_monthly_wages |-> amounts[5]]
            ELSE summary_info
        Line(line, next_line) ==
            IF Contains(line, "ECR Of") \/ Contains(line, "Contribution History")
            THEN [header_info |-> Header(line, ReSearch(HeaderRe, line, FALSE)),
                  summary_info |-> summary_info]
            ELSE IF Contains(line, OrganizationName)
            THEN [header_info |-> Put(header_info, "organization", Strip(line)),
                  summary_info |-> summary_info]
            ELSE IF Contains(line, "Total IP Contribution")
                    /\ Contains(line, "Total Employer Contribution")
            THEN [header_info |-> header_info,
                  summary_info |-> Summary(ReFindAll(AmountRe, next_line, FALSE))]
            ELSE [header_info |-> header_info, summary_info |-> summary_info]
    IN  Line(lines[i + 1], IF i + 1 < Len(lines) THEN lines[i + 2] ELSE "")

\* HasIpPattern with the condition i > 0 left out
HasIpPatternFirst(parts) == \E i \in 1..Len(parts) : IsIpToken(parts[i])

\* HasIpPattern with the condition i > 1 in place of i > 0
HasIpPatternFromTwo(parts) == \E i \in 3..Len(parts) : IsIpToken(parts[i])

\* lines 194-197: some part after the first is exactly 10 digits
HasIpPattern(parts) == \E i \in 2..Len(parts) : IsIpToken(parts[i])

\* SegmentStep with a footer that ends the loop before the table too
SegmentStepAnyFooter(line0, employee_section_started, employee_rows) ==
    LET same == [employee_section_started |-> employee_section_started,
                 employee_rows |-> employee_rows, stop |-> FALSE]
        Footer(line_lower) ==
            StartsWith(line_lower, "page") \/ StartsWith(line_lower, "printed")
        Line(line) ==
            IF line = "" THEN same
            ELSE IF ReSearch(RowStartRe, line, FALSE) # <<>>
            THEN [employee_section_started |-> TRUE,
                  employee_rows |-> Append(employee_rows, line), stop |-> FALSE]
            ELSE IF employee_section_started /\ ReMatch(LeadingIntRe, line, FALSE) # <<>>
            THEN IF HasIpPattern(Split(line))
                 THEN [same EXCEPT !.employee_rows = Append(employee_rows, line)]
                 ELSE IF employee_rows # <<>>
                 THEN [same EXCEPT !.employee_rows =
                           [employee_rows EXCEPT ![Len(employee_rows)] =
                                @ \o " " \o line]]
                 ELSE same
            ELSE IF Footer(StrLower(line))
            THEN [same EXCEPT !.stop = TRUE]
            ELSE same
    IN  Line(Strip(line0))

\* SegmentStep with a line of words inside the table joined to the last row
SegmentStepJoinText(line0, employee_section_started, employee_rows) ==
    LET same == [employee_section_started |-> employee_section_started,
                 employee_rows |-> employee_rows, stop |-> FALSE]
        Footer(line_lower) ==
            StartsWith(line_lower, "page") \/ StartsWith(line_lower, "printed")
        Joined(line) ==
            IF employee_rows # <<>>
            THEN [same EXCEPT !.employee_rows =
                      [employee_rows EXCEPT ![Len(employee_rows)] = @ \o " " \o line]]
            ELSE same
        Line(line) ==
            IF line = "" THEN same
            ELSE IF ReSearch(RowStartRe, line, FALSE) # <<>>
            THEN [employee_section_started |-> TRUE,
                  employee_rows |-> Append(employee_rows, line), stop |-> FALSE]
            ELSE IF employee_section_started /\ ReMatch(LeadingIntRe, line, FALSE) # <<>>
            THEN IF HasIpPattern(Split(line))
                 THEN [same EXCEPT !.employee_rows = Append(employee_rows, line)]
                 ELSE Joined(line)
            ELSE IF employee_section_started /\ Footer(StrLower(line))
            THEN [same EXCEPT !.stop = TRUE]
            ELSE IF employee_section_started THEN Joined(line)
            ELSE same
    IN  Line(Strip(line0))

\* SegmentStep with a continuation line put in front of the last row
SegmentStepPrepend(line0, employee_section_started, employee_rows) ==
    LET same == [employee_section_started |-> employee_section_started,
                 employee_rows |-> employee_rows, stop |-> FALSE]
        Footer(line_lower) ==
            StartsWith(line_lower, "page") \/ StartsWith(line_lower, "printed")
        Line(line) ==
            IF line = "" THEN same
            ELSE IF ReSearch(RowStartRe, line, FALSE) # <<>>
            THEN [employee_section_started |-> TRUE,
                  employee_rows |-> Append(employee_rows, line), stop |-> FALSE]
            ELSE IF employee_section_started /\ ReMatch(LeadingIntRe, line, FALSE) # <<>>
            THEN IF HasIpPattern(Split(line))
                 THEN [same EXCEPT !.employee_rows = Append(employee_rows, line)]
                 ELSE IF employee_rows # <<>>
                 THEN [same EXCEPT !.employee_rows =
                           [employee_rows EXCEPT ![Len(employee_rows)] =
                                line \o " " \o @]]
                 ELSE same
            ELSE IF employee_section_started /\ Footer(StrLower(line))
            THEN [same EXCEPT !.stop = TRUE]
            ELSE same
    IN  Line(Strip(line0))

\* lines 182-205: the segmenter after one line; stop is the break at the footer
SegmentStep(line0, employee_section_started, employee_rows) ==
    LET same == [employee_section_started |-> employee_section_started,
                 employee_rows |-> employee_rows, stop |-> FALSE]
        Footer(line_lower) ==
            StartsWith(line_lower, "page") \/ StartsWith(line_lower, "printed")
        Line(line) ==
            IF line = "" THEN same
            ELSE IF ReSearch(RowStartRe, line, FALSE) # <<>>
            THEN [employee_section_started |-> TRUE,
                  employee_rows |-> Append(employee_rows, line), stop |-> FALSE]
            ELSE IF employee_section_started /\ ReMatch(LeadingIntRe, line, FALSE) # <<>>
            THEN IF HasIpPattern(Split(line))
                 THEN [same EXCEPT !.employee_rows = Append(employee_rows, line)]
                 ELSE IF employee_rows # <<>>
                 THEN [same EXCEPT !.employee_rows =
                           [employee_rows EXCEPT ![Len(employee_rows)] =
                                @ \o " " \o line]]
                 ELSE same
            ELSE IF employee_section_started /\ Footer(StrLower(line))
            THEN [same EXCEPT !.stop = TRUE]
            ELSE same
    IN  Line(Strip(line0))

\* r'Printed On:\s*([^\n]+)': the group is part 3
PrintedOnRe == <<Lit("Printed On:"), Star(Ws), Plus(NotCls({"\n"}))>>
\* r'Page\s+(\d+)\s+of\s+(\d+)': the groups are parts 3 and 7
PageOfRe == <<Lit("Page"), Plus(Ws), Plus(Dg), Plus(Ws), Lit("of"), Plus(Ws), Plus(Dg)>>

\* lines 213-222
FooterStep(text, footer_info) ==
    LET Printed(printed) ==
            IF printed # <<>>
            THEN Put(footer_info, "printed_on", Strip(Group(text, printed, 3)))
            ELSE footer_info
        Page(footer, page) ==
            IF page # <<>>
            THEN Put(footer, "page_info",
                     "Page " \o Group(text, page, 3) \o " of " \o Group(text, page, 7))
            ELSE footer
        PageInfo(footer) ==
            IF Contains(text, "Page") THEN Page(footer, ReSearch(PageOfRe, text, FALSE))
            ELSE footer
    IN  PageInfo(IF Contains(text, "Printed On:")
                 THEN Printed(ReSearch(PrintedOnRe, text, FALSE))
                 ELSE footer_info)

(***************************************************************************)
(* Challan: class ESICChallanExtractor                                     *)
(***************************************************************************)
required_keywords == <<"esic", "challan", "employer", "transaction", "amount">>

\* at least this many of the keywords: found_keywords >= 3
KeywordsNeeded == 3

\* check_esic_keywords with > in place of >=
check_esic_keywords_more(text) ==
    IF text = "" THEN FALSE
    ELSE LET text_lower == StrLower(text)
             found_keywords ==
                 Cardinality({ n \in 1..Len(required_keywords) :
                                 Contains(text_lower, required_keywords[n]) })
         IN  found_keywords > KeywordsNeeded

\* lines 659-669
check_esic_keywords(text) ==
    IF text = "" THEN FALSE
    ELSE LET text_lower == StrLower(text)
             found_keywords ==
                 Cardinality({ n \in 1..Len(required_keywords) :
                                 Contains(text_lower, required_keywords[n]) })
         IN  found_keywords >= KeywordsNeeded

\* [:\s]   [^\n\r]   [\'s\s]   [A-Z0-9\-\/]   [A-Z0-9\-\/\.]
ColonWs == Cls(Space \cup {":"})
NotNl == NotCls({"\n", "\r"})
AposS == Cls(Space \cup {"'", "s"})
CodeCh == Cls(Upper \cup Digit \cup {"-", "/"})
TxnCh == Cls(Upper \cup Digit \cup {"-", "/", "."})
\* \d{1,2}[-\/]\d{1,2}[-\/]\d{4}
DateRe ==
    Cat(<<Rep(Dg, 1, 2), Cls({"-", "/"}), Rep(Dg, 1, 2), Cls({"-", "/"}), Rep(Dg, 4, 4)>>)
\* [0-9,]+\.?\d*
MoneyRe == Cat(<<Plus(Cls(Digit \cup {","})), Opt(Lit(".")), Star(Dg)>>)
NoNumberId == Alt(<<Lit("no"), Lit("number"), Lit("id")>>)
NoNumber == Alt(<<Lit("no"), Lit("number")>>)

\* A pattern of the table: its parts, and which part is capture group 1.
Pat(parts) == [re |-> parts, group |-> Len(parts)]

\* lines 674-713: the eight simple fields, each with its alternatives in order
SimpleFields ==
    <<"transaction_status", "employer_code", "employer_name", "challan_period",
      "challan_number", "challan_created_date", "challan_submitted_date",
      "amount_paid">>

patterns ==
    [transaction_status |->
        <<Pat(<<Lit("status"), Star(ColonWs), Plus(NotNl)>>),
          Pat(<<Lit("transaction"), Star(Ws), Lit("status"), Star(ColonWs), Plus(NotNl)>>),
          Pat(<<Lit("payment"), Star(Ws), Lit("status"), Star(ColonWs), Plus(NotNl)>>)>>,
     employer_code |->
        <<Pat(<<Lit("employer"), Star(AposS), Lit("code"), Star(ColonWs), Plus(Dg)>>),
          Pat(<<Lit("code"), Star(Ws), Lit("no"), Star(ColonWs), Plus(Dg)>>),
          Pat(<<Lit("employer"), Star(Ws), Lit("no"), Star(ColonWs), Plus(Dg)>>)>>,
     employer_name |->
        <<Pat(<<Lit("employer"), Star(AposS), Lit("name"), Star(ColonWs), Plus(NotNl)>>),
          Pat(<<Lit("name"), Star(Ws), Lit("of"), Star(Ws), Lit("employer"),
                Star(ColonWs), Plus(NotNl)>>),
          Pat(<<Lit("establishment"), Star(ColonWs), Plus(NotNl)>>)>>,
     challan_period |->
        <<Pat(<<Lit("challan"), Star(Ws), Lit("period"), Star(ColonWs), Plus(NotNl)>>),
          Pat(<<Lit("period"), Star(ColonWs), Plus(NotNl)>>),
          Pat(<<Lit("contribution"), Star(Ws), Lit("period"), Star(ColonWs), Plus(NotNl)>>)>>,
     challan_number |->
        <<Pat(<<Lit("challan"), Star(Ws), Lit("no"), Star(ColonWs), Plus(CodeCh)>>),
          Pat(<<Lit("challan"), Star(Ws), Lit("number"), Star(ColonWs), Plus(CodeCh)>>),
          Pat(<<Lit("receipt"), Star(Ws), Lit("no"), Star(ColonWs), Plus(CodeCh)>>)>>,
     challan_created_date |->
        <<Pat(<<Lit("created"), Star(Ws), Lit("date"), Star(ColonWs), DateRe>>),
          Pat(<<Lit("generation"), Star(Ws), Lit("date"), Star(ColonWs), DateRe>>),
          Pat(<<Lit("date"), Star(Ws), Lit("of"), Star(Ws), Lit("creation"),
                Star(ColonWs), DateRe>>)>>,
     challan_submitted_date |->
        <<Pat(<<Lit("submitted"), Star(Ws), Lit("date"), Star(ColonWs), DateRe>>),
          Pat(<<Lit("payment"), Star(Ws), Lit("date"), Star(ColonWs), DateRe>>),
          Pat(<<Lit("transaction"), Star(Ws), Lit("date"), Star(ColonWs), DateRe>>)>>,
     amount_paid |->
        <<Pat(<<Lit("amount"), Star(Ws), Lit("paid"), Star(ColonWs), Opt(Lit(Rupee)),
                Star(Ws), MoneyRe>>),
          Pat(<<Lit("total"), Star(Ws), Lit("amount"), Star(ColonWs), Opt(Lit(Rupee)),
                Star(Ws), MoneyRe>>),
          Pat(<<Lit("paid"), Star(Ws), Lit("amount"), Star(ColonWs), Opt(Lit(Rupee)),
                Star(Ws), MoneyRe>>)>>]

\* a label, \s*, (?:no|number|id) or (?:no|number), [:\s]*, ([A-Z0-9\-\/\.]+)
TxnPat(label, kinds) == Pat(<<Lit(label), Star(Ws), kinds, Star(ColonWs), Plus(TxnCh)>>)

\* lines 714-733: the alternatives of transaction_number
transaction_patterns ==
    <<TxnPat("transaction", NoNumberId),
      TxnPat("txn", NoNumberId),
      TxnPat("reference", NoNumberId),
      TxnPat("utr", NoNumber),
      Pat(<<Lit("bank"), Star(Ws), Lit("reference"), Star(Ws), NoNumber, Star(ColonWs),
            Plus(TxnCh)>>),
      Pat(<<Lit("payment"), Star(Ws), Lit("reference"), Star(Ws), NoNumber, Star(ColonWs),
            Plus(TxnCh)>>),
      TxnPat("ref", NoNumber),
      TxnPat("acknowledgment", NoNumber),
      TxnPat("ack", NoNumber),
      TxnPat("receipt", NoNumber),
      TxnPat("grn", NoNumber),
      \* (?:^|\n)\s*([A-Z]{2,}\d{6,}|\d{10,}[A-Z]+|\d{12,})\s*(?:\n|$)
      [re |-> <<Alt(<<Bol, Lit("\n")>>), Star(Ws),
                Alt(<<Cat(<<AtLeast(AZ, 2), AtLeast(Dg, 6)>>),
                      Cat(<<AtLeast(Dg, 10), Plus(AZ)>>),
                      AtLeast(Dg, 12)>>),
                Star(Ws), Alt(<<Lit("\n"), Eol>>)>>,
       group |-> 3],
      \* (?:transaction|txn|ref|reference)[\s\|]*([A-Z0-9]{8,})
      Pat(<<Alt(<<Lit("transaction"), Lit("txn"), Lit("ref"), Lit("reference")>>),
            Star(Cls(Space \cup {"|"})), AtLeast(AZ09, 8)>>),
      \* ([A-Z0-9]{10,20})
      Pat(<<Rep(AZ09, 10, 20)>>)>>

false_positives ==
    <<"esic", "challan", "employer", "employee", "amount", "total", "period", "month",
      "year", "date", "time", "status", "paid">>

\* len(candidate) < 8
MinCandidateLen == 8
\* len(candidate) >= 12
MinDigitsOnlyLen == 12

\* lines 792-816
is_valid_transaction_number(candidate) ==
    IF candidate = "" \/ Len(candidate) < MinCandidateLen THEN FALSE
    ELSE IF \E n \in 1..Len(false_positives) :
                Contains(StrLower(candidate), false_positives[n])
    THEN FALSE
    ELSE LET has_letters == HasAlpha(candidate)
             has_numbers == HasDigit(candidate)
         IN  IF has_letters /\ has_numbers THEN TRUE
             ELSE IF has_numbers /\ ~has_letters /\ Len(candidate) >= MinDigitsOnlyLen
             THEN TRUE
             ELSE FALSE

transaction_indicators ==
    <<"transaction", "txn", "reference", "ref", "utr", "acknowledgment", "ack",
      "receipt", "grn", "bank", "payment">>

\* r'[A-Z0-9]{8,20}' and r'\b[A-Z0-9]{10,20}\b'
PotentialRe == <<Rep(AZ09, 8, 20)>>
CodeRe == <<WordB, Rep(AZ09, 10, 20), WordB>>

\* the first member of a sequence of candidates that is valid, or None
FirstValid(candidates) ==
    LET First(ok) == IF ok = {} THEN None ELSE Some(candidates[Min(ok)])
    IN  First({ n \in 1..Len(candidates) : is_valid_transaction_number(candidates[n]) })

\* lines 758-764: the candidate of one alternative, None if it does not match
Phase1Candidate(text, pat) ==
    LET Candidate(match) ==
            IF match = <<>> THEN None ELSE Some(Strip(Group(text, match, pat.group)))
    IN  Candidate(ReSearch(pat.re, text, TRUE))

RECURSIVE Phase1(_, _, _)
\* lines 758-764: the alternatives n.. of pattern_list, the last one excluded
Phase1(text, pattern_list, n) ==
    IF n > Len(pattern_list) - 1 THEN None
    ELSE LET Try(c) ==
                 IF c # None /\ is_valid_transaction_number(Val(c)) THEN c
                 ELSE Phase1(text, pattern_list, n + 1)
         IN  Try(Phase1Candidate(text, pattern_list[n]))

RECURSIVE Phase2(_, _)
\* lines 773-782: the lines n.. of the text; a line that contains several
\* indicators is scanned once per indicator, with the same outcome each time
Phase2(lines, n) ==
    IF n > Len(lines) THEN None
    ELSE LET Try(num) == IF num # None THEN num ELSE Phase2(lines, n + 1)
             Line(line, line_lower) ==
                 Try(IF \E k \in 1..Len(transaction_indicators) :
                           Contains(line_lower, transaction_indicators[k])
                     THEN FirstValid(ReFindAll(PotentialRe, line, TRUE))
                     ELSE None)
         IN  Line(lines[n], StrLower(lines[n]))

\* lines 785-790
Phase3(text) == FirstValid(ReFindAll(CodeRe, text, TRUE))

\* extract_transaction_number with the last resort tried before the lines
extract_transaction_number_swapped(text, pattern_list) ==
    LET Second(p2) ==
            IF p2 # None THEN [value |-> p2, phase |-> 2]
            ELSE [value |-> None, phase |-> 0]
        Third(p3) ==
            IF p3 # None THEN [value |-> p3, phase |-> 3]
            ELSE Second(Phase2(SplitLines(text), 1))
        First(p1) == IF p1 # None THEN [value |-> p1, phase |-> 1] ELSE Third(Phase3(text))
    IN  First(Phase1(text, pattern_list, 1))

\* lines 755-790: the value returned, and the phase that returned it (0: None)
extract_transaction_number(text, pattern_list) ==
    LET Third(p3) ==
            IF p3 # None THEN [value |-> p3, phase |-> 3]
            ELSE [value |-> None, phase |-> 0]
        Second(p2) == IF p2 # None THEN [value |-> p2, phase |-> 2] ELSE Third(Phase3(text))
        First(p1) ==
            IF p1 # None THEN [value |-> p1, phase |-> 1]
            ELSE Second(Phase2(SplitLines(text), 1))
    IN  First(Phase1(text, pattern_list, 1))

RECURSIVE LastMatch(_, _, _)
\* FirstMatch with the loop's break left out: the last alternative that matches
LastMatch(text, pattern_list, n) ==
    IF n > Len(pattern_list) THEN None
    ELSE LET Try(later, match) ==
                 IF later # None THEN later
                 ELSE IF match # <<>>
                 THEN Some(Strip(Group(text, match, pattern_list[n].group)))
                 ELSE None
         IN  Try(LastMatch(text, pattern_list, n + 1),
                 ReSearch(pattern_list[n].re, text, TRUE))

RECURSIVE FirstMatch(_, _, _)
\* lines 745-749: the value of the first alternative from n on that matches
FirstMatch(text, pattern_list, n) ==
    IF n > Len(pattern_list) THEN None
    ELSE LET Try(match) ==
                 IF match # <<>>
                 THEN Some(Strip(Group(text, match, pattern_list[n].group)))
                 ELSE FirstMatch(text, pattern_list, n + 1)
         IN  Try(ReSearch(pattern_list[n].re, text, TRUE))

\* line 751: value if value else "Not Found"
OrNotFound(value) == IF value = None \/ Val(value) = "" THEN "Not Found" ELSE Val(value)

\* lines 736-753
extract_field_patterns(text) ==
    [field \in DOMAIN patterns |-> OrNotFound(FirstMatch(text, patterns[field], 1))]
    @@ [transaction_number |->
           OrNotFound(extract_transaction_number(text, transaction_patterns).value)]

\* r'\s+\d+\.\d{2}\s+|\s+RUPEE\s*\d+'
TableRowRe ==
    <<Alt(<<Cat(<<Plus(Ws), Plus(Dg), Lit("."), Rep(Dg, 2, 2), Plus(Ws)>>),
            Cat(<<Plus(Ws), Lit(Rupee), Star(Ws), Plus(Dg)>>)>>)>>
\* r'\s{2,}'
WideGapRe == <<AtLeast(Ws, 2)>>

RECURSIVE ReSplitFrom(_, _, _, _)
\* re.split for a pattern without groups that matches no empty text
ReSplitFrom(parts, s, from, ic) ==
    LET Found(p) ==
            IF p = <<>> THEN <<SubSeq(s, from + 1, Len(s))>>
            ELSE <<SubSeq(s, from + 1, p[1])>> \o ReSplitFrom(parts, s, p[Len(p)], ic)
    IN  Found(ReSearchIn(parts, s, from, Len(s), ic))

\* len(line.split()) >= 3
MinTableColumns == 3

\* lines 818-840
extract_table_data(text) ==
    LET Cells(cells) ==
            SelectSeq([n \in 1..Len(cells) |-> Strip(cells[n])], LAMBDA cell : cell # "")
        Row(line) == Cells(ReSplitFrom(WideGapRe, line, 0, FALSE))
        Tables(potential_table_lines) ==
            IF potential_table_lines # <<>>
            THEN <<SelectSeq([n \in 1..Len(potential_table_lines) |->
                                 Row(potential_table_lines[n])],
                             LAMBDA r : r # <<>>)>>
            ELSE <<>>
    IN  Tables(SelectSeq(SplitLines(text),
                         LAMBDA line : /\ ReSearch(TableRowRe, line, FALSE) # <<>>
                                       /\ Len(Split(line)) >= MinTableColumns))

\* A PDF as the two backends see it.  pdf.plumber is None when pdfplumber
\* raises, else its pages, each the page's text or None; pdf.mupdf is None
\* when PyMuPDF raises, else the text of each of its pages.
RECURSIVE PlumberText(_, _)
\* lines 623-628
PlumberText(pages, n) ==
    IF n > Len(pages) THEN ""
    ELSE (IF pages[n] # None /\ Val(pages[n]) # "" THEN Val(pages[n]) \o "\n" ELSE "")
         \o PlumberText(pages, n + 1)

\* lines 619-631
extract_text_pdfplumber(pdf_bytes) ==
    IF pdf_bytes.plumber = None THEN None
    ELSE Some(PlumberText(Val(pdf_bytes.plumber), 1))

RECURSIVE MupdfText(_, _)
\* lines 637-640
MupdfText(pages, n) ==
    IF n > Len(pages) THEN "" ELSE pages[n] \o "\n" \o MupdfText(pages, n + 1)

\* lines 633-645
extract_text_pymupdf(pdf_bytes) ==
    IF pdf_bytes.mupdf = None THEN None
    ELSE Some(MupdfText(Val(pdf_bytes.mupdf), 1))

\* lines 647-657: the text or None, and the backends that were called, in order
extract_text_from_pdf(pdf_bytes, plumber_available, mupdf_available) ==
    LET text1 == IF plumber_available THEN extract_text_pdfplumber(pdf_bytes) ELSE None
        called1 == IF plumber_available THEN <<"pdfplumber">> ELSE <<>>
    IN  IF text1 = None /\ mupdf_available
        THEN [text |-> extract_text_pymupdf(pdf_bytes),
              called |-> Append(called1, "pymupdf")]
        ELSE [text |-> text1, called |-> called1]

\* text[:1000]
RawTextLimit == 1000

\* process_single_pdf whose except branch keeps what was extracted so far
process_single_pdf_partial(pdf_bytes, filename, plumber_available, mupdf_available, fault) ==
    LET Result(text) ==
            IF text = ""
            THEN [filename |-> filename, status |-> "error",
                  error |-> "Could not extract text from PDF"]
            ELSE IF ~check_esic_keywords(text)
            THEN [filename |-> filename, status |-> "not_esic",
                  error |-> "Document does not appear to be an ESIC challan"]
            ELSE IF fault
            THEN [filename |-> filename, status |-> "error", error |-> "fault",
                  extracted_data |-> extract_field_patterns(text)]
            ELSE [filename |-> filename, status |-> "success",
                  extracted_data |-> extract_field_patterns(text),
                  tables |-> extract_table_data(text),
                  raw_text |-> IF Len(text) > RawTextLimit
                               THEN SubSeq(text, 1, RawTextLimit) \o "..."
                               ELSE text]
        Extracted(x) ==
            [result |-> Result(IF x.text = None THEN "" ELSE Val(x.text)),
             text |-> x.text, called |-> x.called]
    IN  Extracted(extract_text_from_pdf(pdf_bytes, plumber_available, mupdf_available))

\* lines 842-885: the result, with the text and the backends called on the
\* way; fault says that the extraction of lines 863-866 raises
process_single_pdf(pdf_bytes, filename, plumber_available, mupdf_available, fault) ==
    LET Result(text) ==
            IF text = ""
            THEN [filename |-> filename, status |-> "error",
                  error |-> "Could not extract text from PDF"]
            ELSE IF ~check_esic_keywords(text)
            THEN [filename |-> filename, status |-> "not_esic",
                  error |-> "Document does not appear to be an ESIC challan"]
            ELSE IF fault
            THEN [filename |-> filename, status |-> "error", error |-> "fault"]
            ELSE [filename |-> filename, status |-> "success",
                  extracted_data |-> extract_field_patterns(text),
                  tables |-> extract_table_data(text),
                  raw_text |-> IF Len(text) > RawTextLimit
                               THEN SubSeq(text, 1, RawTextLimit) \o "..."
                               ELSE text]
        Extracted(x) ==
            [result |-> Result(IF x.text = None THEN "" ELSE Val(x.text)),
             text |-> x.text, called |-> x.called]
    IN  Extracted(extract_text_from_pdf(pdf_bytes, plumber_available, mupdf_available))

(***************************************************************************)
(* State                                                                   *)
(***************************************************************************)
VARIABLES
    \* parse_employee_row_improved called on its own
    row_pc,             \* "call" before the call, "done" after it
    row_text,           \* its arguments
    row_summary,
    row_header,
    employee_record,    \* what it returned
    previous_record,    \* what the call before it returned
    \* _is_valid_transaction_number called on its own
    val_pc,
    candidate,
    verdict,            \* None before the call, then Some of the boolean
    \* extract_esic_data on one document
    ecr_pc,             \* "page", "header", "segment", "rows", "done", "failed"
    page_pool,          \* the pages the document can have
    page_num,           \* pages read so far
    page_text,          \* text of the current page (None before the first)
    lines,              \* its lines
    line_i,             \* 0-based index of the next line of the running loop
    header_info,        \* extracted_data['header_info']
    summary_info,       \* extracted_data['summary_info']
    employee_data,      \* extracted_data['employee_data']
    footer_info,        \* extracted_data['footer_info']
    employee_section_started,
    employee_rows,
    row_i,              \* 0-based index of the next row of employee_rows
    ecr_result,         \* what extract_esic_data returned (None: nothing yet, or None)
    scanned,            \* history: every line the header loop has handled
    \* process_single_pdf on one uploaded file
    ch_pc,              \* "call" before the call, "done" after it
    PDFPLUMBER_AVAILABLE,
    PYMUPDF_AVAILABLE,
    pdf_bytes,          \* the file, as the two backends see it
    fault,              \* the field extraction raises
    text,               \* the text extract_text_from_pdf returned
    called,             \* the backends it called, in order
    result,             \* what process_single_pdf returned
    \* the numeric normalizers called on their own
    num_pc,             \* "call" before the call, then "ecr" or "challan"
    num_value,          \* the arguments
    num_is_integer,
    num_result,         \* what the call returned, or OverflowError
    \* the two batch loops of main
    batch_pc,           \* "ecr" or "challan" while that loop runs, then "done"
    uploaded_files,     \* the files of the batch, in order
    file_i,             \* 0-based index of the next file
    all_data,
    successful_files,
    failed_files,
    results

rowVars ==
    <<row_pc, row_text, row_summary, row_header, employee_record, previous_record>>
valVars == <<val_pc, candidate, verdict>>
ecrVars ==
    <<ecr_pc, page_pool, page_num, page_text, lines, line_i, header_info, summary_info,
      employee_data, footer_info, employee_section_started, employee_rows, row_i,
      ecr_result, scanned>>
chVars ==
    <<ch_pc, PDFPLUMBER_AVAILABLE, PYMUPDF_AVAILABLE, pdf_bytes, fault, text, called,
      result>>
numVars == <<num_pc, num_value, num_is_integer, num_result>>
batchVars ==
    <<batch_pc, uploaded_files, file_i, all_data, successful_files, failed_files,
      results>>
restVars == <<numVars, batchVars>>
vars == <<rowVars, valVars, ecrVars, chVars, restVars>>

\* all sequences over a set of at most n members
SeqsUpTo(set, n) == UNION { [1..k -> set] : k \in 0..n }

\* each part of the program at rest
RowIdle ==
    /\ row_pc = "idle" /\ row_text = "" /\ row_summary = <<>> /\ row_header = <<>>
    /\ employee_record = None /\ previous_record = None
ValIdle == val_pc = "idle" /\ candidate = "" /\ verdict = None
EcrIdle ==
    /\ ecr_pc = "idle" /\ page_pool = {} /\ page_num = 0 /\ page_text = None /\ lines = <<>>
    /\ line_i = 0 /\ header_info = <<>> /\ summary_info = <<>>
    /\ employee_data = <<>> /\ footer_info = <<>>
    /\ employee_section_started = FALSE /\ employee_rows = <<>> /\ row_i = 0
    /\ ecr_result = None /\ scanned = <<>>
ChIdle ==
    /\ ch_pc = "idle" /\ PDFPLUMBER_AVAILABLE = TRUE /\ PYMUPDF_AVAILABLE = TRUE
    /\ pdf_bytes = [plumber |-> None, mupdf |-> None] /\ fault = FALSE
    /\ text = None /\ called = <<>> /\ result = None
NumIdle ==
    /\ num_pc = "idle" /\ num_value = "" /\ num_is_integer = FALSE /\ num_result = None
BatchIdle ==
    /\ batch_pc = "idle" /\ uploaded_files = <<>> /\ file_i = 0 /\ all_data = <<>>
    /\ successful_files = <<>> /\ failed_files = <<>> /\ results = <<>>
RestIdle == NumIdle /\ BatchIdle

(***************************************************************************)
(* The row field extractor on its own                                      *)
(***************************************************************************)
\* tokens after the head of a row: at most this many
MaxTailTokens == 3

\* how a row starts: serial number, disability marker and IP number, well
\* formed or not
RowHeads ==
    { <<"1", "-", "1234567890">>, <<"1", "-", "12345678901">>,
      <<"1", "-", "123456789">>, <<"1234567890", "-", "1234567891">>,
      <<"A", "-", "1234567890">>, <<"2", "1234567890">>, <<"1234567890">>,
      <<"7", "KUMAR", "Y", "1234567892">> }
TailTokens == {"RAM", "26", "1,200.00", "No", "Work", "9876543210", "12.5", "12.50"}

RowTexts ==
    { Join(h \o t, " ") : h \in RowHeads, t \in SeqsUpTo(TailTokens, MaxTailTokens) }
    \cup { "", "  ", " 1 - 1234567890 RAM KUMAR 26 ",
           "1\t-\t1234567890  RAM 26 15000.00 1200.00",
           "1 - 1234567890 RAM KUMAR 26 15000.00 1200.00",
           "1 - 1234567890 RAM 26 15000.00 1200.00 75.00 3 Left Servic",
           "1 - 1234567890 RAM 26 15000.00 1200.00 -" }

RowContexts ==
    { [summary_info |-> <<>>, header_info |-> <<>>],
      [summary_info |->
          [total_ip_contribution |-> "10.00", total_employer_contribution |-> "20.00",
           total_contribution |-> "30.00", total_government_contribution |-> "40.00",
           total_monthly_wages |-> "1,500.00"],
       header_info |-> [establishment_code |-> "123", period |-> "Apr2024",
                        month |-> "April"]] }

RowInit ==
    /\ row_pc = "call"
    /\ row_text \in RowTexts
    /\ \E c \in RowContexts : row_summary = c.summary_info /\ row_header = c.header_info
    /\ employee_record = None /\ previous_record = None
    /\ ValIdle /\ EcrIdle /\ ChIdle /\ RestIdle

\* ParseRowCall with a call that uses up the summary it is given
ParseRowCallCleared ==
    /\ row_pc \in {"call", "done"}
    /\ previous_record' = employee_record
    /\ row_summary' = <<>>
    /\ employee_record' = parse_employee_row_improved(row_text, row_summary, row_header)
    /\ row_pc' = IF row_pc = "call" THEN "done" ELSE "again"
    /\ UNCHANGED <<row_text, row_header, valVars, ecrVars, chVars, restVars>>

\* lines 231-365: the call, and the same call once more with the same arguments
ParseRowCall ==
    /\ row_pc \in {"call", "done"}
    /\ previous_record' = employee_record
    /\ employee_record' = parse_employee_row_improved(row_text, row_summary, row_header)
    /\ row_pc' = IF row_pc = "call" THEN "done" ELSE "again"
    /\ UNCHANGED <<row_text, row_summary, row_header, valVars, ecrVars, chVars, restVars>>

RowNext == ParseRowCall

SpecRow == RowInit /\ [][RowNext]_vars

(***************************************************************************)
(* The candidate validator on its own                                      *)
(***************************************************************************)
\* a candidate is made of at most this many pieces
MaxPieces == 3

CandidatePieces == {"UTR", "amount", "PAID", "1234", "12345678", "-", "x", "."}

RECURSIVE Concat(_)
Concat(q) == IF q = <<>> THEN "" ELSE Head(q) \o Concat(Tail(q))

Candidates ==
    { Concat(q) : q \in SeqsUpTo(CandidatePieces, MaxPieces) }
    \cup {"AMOUNTPAID123", "UTR1234567"}

ValInit ==
    /\ val_pc = "call" /\ candidate \in Candidates /\ verdict = None
    /\ RowIdle /\ EcrIdle /\ ChIdle /\ RestIdle

ValidateCall ==
    /\ val_pc = "call"
    /\ verdict' = Some(is_valid_transaction_number(candidate))
    /\ val_pc' = "done"
    /\ UNCHANGED <<candidate, rowVars, ecrVars, chVars, restVars>>

ValNext == ValidateCall

SpecValidator == ValInit /\ [][ValNext]_vars

(***************************************************************************)
(* extract_esic_data on one document, page by page and line by line        *)
(***************************************************************************)
\* a document has at most this many pages, a generated page this many lines
MaxPages == 2
MaxPageLines == 2

EcrLines ==
    { "ECR Of 123 for Apr2024",
      "Contribution History Of 456 for May2024",
      "Employees' State Insurance Corporation",
      " Regional Office, Employees' State Insurance Corporation ",
      "Total IP Contribution Total Employer Contribution",
      "10.00 20.00 30.00 40.00 50.00",
      "1 - 1234567890 RAM KUMAR 26 15000.00 1200.00",
      "2 - 1234567891 SITA 0 0.00 0.00 No Work" }

ExamplePages ==
    { "Total IP Contribution Total Employer Contribution\n1,000.50 2 3 4 5\n"
        \o "1 - 1234567890 RAM KUMAR 26 15000.00 1200.00",
      "1 - 1234567890 RAM KUMAR 26 15000.00 1200.00\nPage 1 of 2\nPrinted On: 01/05/2024",
      "1 - 1234567890 RAM KUMAR 26 15000.00 1200.00\n"
        \o "Total IP Contribution Total Employer Contribution\n10.00 20.00 30.00 40.00 50.00" }

PageTexts ==
    { Join(q, "\n") : q \in SeqsUpTo(EcrLines, MaxPageLines) \ {<<>>} } \cup ExamplePages

\* what page.extract_text() gives: None, no text, or a text
PageOutcomes == {None, Some("")} \cup { Some(t) : t \in PageTexts }

EcrInit ==
    /\ ecr_pc = "page" /\ page_pool = PageOutcomes /\ page_num = 0 /\ page_text = None /\ lines = <<>>
    /\ line_i = 0 /\ header_info = <<>> /\ summary_info = <<>>
    /\ employee_data = <<>> /\ footer_info = <<>>
    /\ employee_section_started = FALSE /\ employee_rows = <<>> /\ row_i = 0
    /\ ecr_result = None /\ scanned = <<>>
    /\ RowIdle /\ ValIdle /\ ChIdle /\ RestIdle

\* lines 143-148: the next page is read; a page without text is skipped
ReadPage ==
    /\ ecr_pc = "page"
    /\ page_num < MaxPages
    /\ \E t \in page_pool :
          /\ page_text' = t
          /\ IF t = None \/ Val(t) = ""
             THEN /\ lines' = <<>>
                  /\ ecr_pc' = "page"
             ELSE /\ lines' = SplitLines(Val(t))
                  /\ ecr_pc' = "header"
    /\ page_num' = page_num + 1
    /\ line_i' = 0
    /\ UNCHANGED <<page_pool,
                   header_info, summary_info, employee_data, footer_info,
                   employee_section_started, employee_rows, row_i, ecr_result, scanned,
                   rowVars, valVars, chVars, restVars>>

\* HeaderLine with the segmenter state and the rows of the page before kept
HeaderLineKeepRows ==
    /\ ecr_pc = "header"
    /\ LET Assign(a) == /\ header_info' = a.header_info
                         /\ summary_info' = a.summary_info
       IN  Assign(HeaderStep(lines, line_i, header_info, summary_info))
    /\ scanned' = Append(scanned, lines[line_i + 1])
    /\ IF line_i + 1 < Len(lines)
       THEN /\ line_i' = line_i + 1
            /\ UNCHANGED <<ecr_pc, employee_section_started, employee_rows>>
       ELSE /\ line_i' = 0
            /\ ecr_pc' = "segment"
            /\ UNCHANGED <<employee_section_started, employee_rows>>
    /\ UNCHANGED <<page_pool,
                   page_num, page_text, lines, employee_data, footer_info, row_i,
                   ecr_result, rowVars, valVars, chVars, restVars>>

\* lines 151-175: one line of the header loop; after the last one the
\* segmenter starts (lines 178-179)
HeaderLine ==
    /\ ecr_pc = "header"
    /\ LET Assign(a) == /\ header_info' = a.header_info
                         /\ summary_info' = a.summary_info
       IN  Assign(HeaderStep(lines, line_i, header_info, summary_info))
    /\ scanned' = Append(scanned, lines[line_i + 1])
    /\ IF line_i + 1 < Len(lines)
       THEN /\ line_i' = line_i + 1
            /\ UNCHANGED <<ecr_pc, employee_section_started, employee_rows>>
       ELSE /\ line_i' = 0
            /\ ecr_pc' = "segment"
            /\ employee_section_started' = FALSE
            /\ employee_rows' = <<>>
    /\ UNCHANGED <<page_pool,
                   page_num, page_text, lines, employee_data, footer_info, row_i,
                   ecr_result, rowVars, valVars, chVars, restVars>>

\* lines 181-205: one line of the segmenter loop; the loop ends at the footer
\* or after the last line
SegmentLine ==
    /\ ecr_pc = "segment"
    /\ LET Assign(a) ==
               /\ employee_section_started' = a.employee_section_started
               /\ employee_rows' = a.employee_rows
               /\ IF a.stop \/ line_i + 1 >= Len(lines)
                  THEN ecr_pc' = "rows" /\ line_i' = 0 /\ row_i' = 0
                  ELSE line_i' = line_i + 1 /\ UNCHANGED <<ecr_pc, row_i>>
       IN  Assign(SegmentStep(lines[line_i + 1], employee_section_started,
                              employee_rows))
    /\ UNCHANGED <<page_pool,
                   page_num, page_text, lines, header_info, summary_info,
                   employee_data, footer_info, ecr_result, scanned,
                   rowVars, valVars, chVars, restVars>>

\* ParseRow with the newest record put first
ParseRowNewestFirst ==
    /\ ecr_pc = "rows"
    /\ row_i < Len(employee_rows)
    /\ LET Collect(record) ==
               employee_data' = IF record # None THEN <<record>> \o employee_data
                                ELSE employee_data
       IN  Collect(parse_employee_row_improved(employee_rows[row_i + 1], summary_info,
                                               header_info))
    /\ row_i' = row_i + 1
    /\ UNCHANGED <<page_pool,
                   ecr_pc, page_num, page_text, lines, line_i, header_info,
                   summary_info, footer_info, employee_section_started,
                   employee_rows, ecr_result, scanned, rowVars, valVars, chVars, restVars>>

\* lines 208-211: one row of the page becomes a record, or is dropped
ParseRow ==
    /\ ecr_pc = "rows"
    /\ row_i < Len(employee_rows)
    /\ LET Collect(record) ==
               employee_data' = IF record # None THEN Append(employee_data, record)
                                ELSE employee_data
       IN  Collect(parse_employee_row_improved(employee_rows[row_i + 1], summary_info,
                                               header_info))
    /\ row_i' = row_i + 1
    /\ UNCHANGED <<page_pool,
                   ecr_pc, page_num, page_text, lines, line_i, header_info,
                   summary_info, footer_info, employee_section_started,
                   employee_rows, ecr_result, scanned, rowVars, valVars, chVars, restVars>>

\* lines 213-222: the footer of the page, then on to the next page
PageFooter ==
    /\ ecr_pc = "rows"
    /\ row_i = Len(employee_rows)
    /\ footer_info' = FooterStep(Val(page_text), footer_info)
    /\ ecr_pc' = "page"
    /\ UNCHANGED <<page_pool,
                   page_num, page_text, lines, line_i, header_info, summary_info,
                   employee_data, employee_section_started, employee_rows, row_i,
                   ecr_result, scanned, rowVars, valVars, chVars, restVars>>

\* ReturnData with the totals and the month at the end of the document
\* written into every record
ReturnDataBackfill ==
    /\ ecr_pc = "page"
    /\ employee_data' =
          [k \in 1..Len(employee_data) |->
              [employee_data[k] EXCEPT
                  !.Month = Get(header_info, "month", "Not Found"),
                  !.TotalIPContribution =
                      safe_numeric_convert(Get(summary_info, "total_ip_contribution", ""),
                                           FALSE)]]
    /\ ecr_result' = Some([header_info |-> header_info, summary_info |-> summary_info,
                           employee_data |-> employee_data',
                           footer_info |-> footer_info])
    /\ ecr_pc' = "done"
    /\ UNCHANGED <<page_pool,
                   page_num, page_text, lines, line_i, header_info, summary_info,
                   footer_info, employee_section_started,
                   employee_rows, row_i, scanned, rowVars, valVars, chVars, restVars>>

\* line 224: no page is left
ReturnData ==
    /\ ecr_pc = "page"
    /\ ecr_result' = Some([header_info |-> header_info, summary_info |-> summary_info,
                           employee_data |-> employee_data,
                           footer_info |-> footer_info])
    /\ ecr_pc' = "done"
    /\ UNCHANGED <<page_pool,
                   page_num, page_text, lines, line_i, header_info, summary_info,
                   employee_data, footer_info, employee_section_started,
                   employee_rows, row_i, scanned, rowVars, valVars, chVars, restVars>>

\* lines 226-228: pdfplumber raises while a page is opened or read
EcrFault ==
    /\ ecr_pc = "page"
    /\ ecr_result' = None
    /\ ecr_pc' = "failed"
    /\ UNCHANGED <<page_pool,
                   page_num, page_text, lines, line_i, header_info, summary_info,
                   employee_data, footer_info, employee_section_started,
                   employee_rows, row_i, scanned, rowVars, valVars, chVars, restVars>>

EcrNext ==
    \/ ReadPage
    \/ HeaderLine
    \/ SegmentLine
    \/ ParseRow
    \/ PageFooter
    \/ ReturnData
    \/ EcrFault

SpecEcr == EcrInit /\ [][EcrNext]_vars

(***************************************************************************)
(* process_single_pdf on one uploaded file                                 *)
(***************************************************************************)
\* a generated text has a heading and at most this many lines after it
MaxBodyLines == 2

Headings == {"ESIC Challan", "ESIC Challan Amount"}

BodyLines ==
    { "Employer Code: 4100012345",
      "Code No: 77",
      "Transaction Status: Paid",
      "Status: ",
      "Amount Paid: 1,234.00",
      "Transaction No: UTR1234567",
      "Txn Id: AMOUNTPAID123",
      "Bank UTR1234567X",
      "Code AB12345678CD",
      "Ref No: 12345678-1234" }

ChallanTexts ==
    { Join(<<h>> \o q, "\n") :
        h \in Headings, q \in SeqsUpTo(BodyLines, MaxBodyLines) \ {<<>>} }

\* the text PyMuPDF reads from a page that has text
MupdfPageText == "ESIC Challan\nEmployer Code: 4100012345\nTransaction No: UTR1234567"

\* the uploaded files: pdfplumber raises, or finds no page, a page without
\* text, or a page with a text; PyMuPDF raises, or finds a page without text
\* or with a text
Files ==
    [plumber : {None, Some(<<>>), Some(<<None>>)}
                  \cup { Some(<<Some(t)>>) : t \in ChallanTexts },
     mupdf : {None, Some(<<"">>), Some(<<MupdfPageText>>)}]

ChInit ==
    /\ ch_pc = "call"
    /\ PDFPLUMBER_AVAILABLE \in BOOLEAN
    /\ PYMUPDF_AVAILABLE \in BOOLEAN
    /\ pdf_bytes \in Files
    \* what a backend that is not installed would read is left out
    /\ ~PDFPLUMBER_AVAILABLE => pdf_bytes.plumber = None
    /\ ~PYMUPDF_AVAILABLE => pdf_bytes.mupdf = None
    /\ fault \in BOOLEAN
    /\ text = None /\ called = <<>> /\ result = None
    /\ RowIdle /\ ValIdle /\ EcrIdle /\ RestIdle

\* lines 842-885, with the calls of lines 845, 854, 863 and 866
ProcessFile ==
    /\ ch_pc = "call"
    /\ LET Return(r) == /\ result' = Some(r.result)
                        /\ text' = r.text
                        /\ called' = r.called
       IN  Return(process_single_pdf(pdf_bytes, "challan.pdf", PDFPLUMBER_AVAILABLE,
                                     PYMUPDF_AVAILABLE, fault))
    /\ ch_pc' = "done"
    /\ UNCHANGED <<PDFPLUMBER_AVAILABLE, PYMUPDF_AVAILABLE, pdf_bytes, fault,
                   rowVars, valVars, ecrVars, restVars>>

ChNext == ProcessFile

SpecChallan == ChInit /\ [][ChNext]_vars

(***************************************************************************)
(* The numeric normalizers on their own                                    *)
(***************************************************************************)
\* a value is made of at most this many pieces
MaxNumPieces == 3

NumPieces ==
    {"12,345", ".00", "-", "inf", "nan", "1e", "400", "5", "Not Found", "N/A",
     "error", " ", "$", "x"}

NumValues == { Concat(q) : q \in SeqsUpTo(NumPieces, MaxNumPieces) }

NumInit ==
    /\ num_pc = "call" /\ num_value \in NumValues /\ num_is_integer \in BOOLEAN
    /\ num_result = None
    /\ RowIdle /\ ValIdle /\ EcrIdle /\ ChIdle /\ BatchIdle

\* safe_numeric_convert(value, is_integer)
ConvertCall ==
    /\ num_pc = "call"
    /\ num_result' = Some(safe_numeric_convert(num_value, num_is_integer))
    /\ num_pc' = "ecr"
    /\ UNCHANGED <<num_value, num_is_integer, rowVars, valVars, ecrVars, chVars,
                   batchVars>>

\* safe_numeric_convert_challan(value, is_integer)
ConvertChallanCall ==
    /\ num_pc = "call"
    /\ num_result' = Some(safe_numeric_convert_challan(num_value, num_is_integer))
    /\ num_pc' = "challan"
    /\ UNCHANGED <<num_value, num_is_integer, rowVars, valVars, ecrVars, chVars,
                   batchVars>>

NumNext == ConvertCall \/ ConvertChallanCall

SpecNum == NumInit /\ [][NumNext]_vars

(***************************************************************************)
(* extract_esic_data on documents made of table lines: the row segmenter   *)
(***************************************************************************)
\* a generated table page has at most this many lines
MaxSegmentLines == 2

\* a row-start line, a row-start line too short to give a record, a line
\* with an IP number inside, a line that starts with ten digits and has no
\* other IP number, a line with its only IP number second, a line of words,
\* and a footer line
SegmentLines ==
    { "1 - 1234567890 RAM KUMAR 26 15000.00 1200.00",
      "2 - 1234567891 SITA",
      "7 KUMAR 1234567892 DEVI 26 100.00 10.00",
      "1234567893 26 15000.00 1200.00",
      "7 1234567894 DEVI 26 100.00 10.00",
      "KUMAR SINGH",
      "Page 1 of 2" }

\* longer pages: a continuation and then a row opened by an IP number inside
\* the line, rows after the footer, a footer before the table, a short row
\* between two others, empty lines and a line of words inside a row, a row
\* with its IP number second and a continuation, and a short row completed by
\* a continuation
SegmentExamples ==
    { <<"1 - 1234567890 RAM KUMAR 26 15000.00 1200.00", "1234567893 26 15000.00 1200.00",
        "7 KUMAR 1234567892 DEVI 26 100.00 10.00">>,
      <<"1 - 1234567890 RAM KUMAR 26 15000.00 1200.00", "Page 1 of 2",
        "7 KUMAR 1234567892 DEVI 26 100.00 10.00",
        "1 - 1234567890 RAM KUMAR 26 15000.00 1200.00">>,
      <<"Printed On: 01/05/2024", "1 - 1234567890 RAM KUMAR 26 15000.00 1200.00",
        " printed by the employer ", "2 - 1234567891 SITA">>,
      <<"1 - 1234567890 RAM KUMAR 26 15000.00 1200.00", "2 - 1234567891 SITA",
        "7 KUMAR 1234567892 DEVI 26 100.00 10.00">>,
      <<"  ", "1 - 1234567890 RAM KUMAR 26 15000.00 1200.00", "", "KUMAR SINGH",
        "1234567893 26 15000.00 1200.00">>,
      <<"1 - 1234567890 RAM KUMAR 26 15000.00 1200.00",
        "7 1234567894 DEVI 26 100.00 10.00", "1234567893 26 15000.00 1200.00">>,
      <<"2 - 1234567891 SITA", "26 15000.00 1200.00", "No Work">> }

\* what page.extract_text() gives: None, no text, or a text
SegmentPages ==
    {None, Some("")}
    \cup { Some(Join(q, "\n")) :
             q \in (SeqsUpTo(SegmentLines, MaxSegmentLines) \ {<<>>}) \cup SegmentExamples }

\* the document before its first page is read
EcrFresh ==
    /\ ecr_pc = "page" /\ page_num = 0 /\ page_text = None /\ lines = <<>>
    /\ line_i = 0 /\ header_info = <<>> /\ summary_info = <<>>
    /\ employee_data = <<>> /\ footer_info = <<>>
    /\ employee_section_started = FALSE /\ employee_rows = <<>> /\ row_i = 0
    /\ ecr_result = None /\ scanned = <<>>

SegmentInit ==
    /\ page_pool = SegmentPages
    /\ EcrFresh
    /\ RowIdle /\ ValIdle /\ ChIdle /\ RestIdle

SpecSegment == SegmentInit /\ [][EcrNext]_vars

(***************************************************************************)
(* extract_esic_data on documents made of summary lines                    *)
(***************************************************************************)
\* a generated summary page has at most this many lines
MaxSummaryLines == 2

\* the labels line, labels lines that also carry the words of the header
\* line or the organization, lines of five, six and four amounts, and a row
SummaryLines ==
    { "Total IP Contribution Total Employer Contribution",
      "Contribution History Total IP Contribution Total Employer Contribution",
      "Employees' State Insurance Corporation Total IP Contribution Total Employer Contribution",
      "10.00 20.00 30.00 40.00 50.00",
      "1,000.50 2 3 4 5 6",
      "7.00 8.00 9.00 1.00",
      "1 - 1234567890 RAM KUMAR 26 15000.00 1200.00" }

\* pages with a header line that names the organization, alone, before and
\* after another header line, and before the organization line
SummaryExamples ==
    { <<"ECR Of 123 for Apr2024, Employees' State Insurance Corporation">>,
      <<"ECR Of 123 for Apr2024, Employees' State Insurance Corporation",
        "Contribution History Of 456 for May2024">>,
      <<"Contribution History Of 456 for May2024",
        "ECR Of 123 for Apr2024, Employees' State Insurance Corporation">>,
      <<"ECR Of 123 for Apr2024, Employees' State Insurance Corporation",
        " Regional Office, Employees' State Insurance Corporation ">> }

SummaryPages ==
    { Some(Join(q, "\n")) :
        q \in (SeqsUpTo(SummaryLines, MaxSummaryLines) \ {<<>>}) \cup SummaryExamples }

SummaryInit ==
    /\ page_pool = SummaryPages
    /\ EcrFresh
    /\ RowIdle /\ ValIdle /\ ChIdle /\ RestIdle

SpecSummary == SummaryInit /\ [][EcrNext]_vars

(***************************************************************************)
(* extract_esic_data on documents made of header lines                     *)
(***************************************************************************)
\* a generated header page has at most this many lines
MaxHeaderLines == 1

\* how a header line starts, and the period it ends with: abbreviations in
\* three letter cases, a full month name, runs of two and of ten letters, a
\* year of two digits, an unknown abbreviation, and no period at all
HeaderStarts ==
    { "ECR Of 123", "Contribution History Of 456",
      "Contribution History for Jan2023 Of 123" }
HeaderPeriods ==
    { " for Apr2024", " for apr2024", " for MAY2024", " for April2024", " for Ab2024",
      " for Septembers2024", " for Jun24", " for Xyz2024", "" }

HeaderLines ==
    { s \o p : s \in HeaderStarts, p \in HeaderPeriods }
    \cup { "1 - 1234567890 RAM KUMAR 26 15000.00 1200.00" }

HeaderPages ==
    { Some(Join(q, "\n")) : q \in SeqsUpTo(HeaderLines, MaxHeaderLines) \ {<<>>} }

HeaderInit ==
    /\ page_pool = HeaderPages
    /\ EcrFresh
    /\ RowIdle /\ ValIdle /\ ChIdle /\ RestIdle

SpecHeader == HeaderInit /\ [][EcrNext]_vars

(***************************************************************************)
(* The two batch loops of main: the uploaded files, one after the other    *)
(***************************************************************************)
\* a batch has at most this many files
MaxFiles == 2

FileNames == <<"a.pdf", "b.pdf", "c.pdf", "d.pdf">>

\* the pages of the ECR files of a batch: no text, one row, and a row too
\* short to give a record between two others
BatchPages ==
    { None,
      Some("1 - 1234567890 RAM KUMAR 26 15000.00 1200.00"),
      Some("1 - 1234567890 RAM KUMAR 26 15000.00 1200.00\n2 - 1234567891 SITA\n"
             \o "7 KUMAR 1234567892 DEVI 26 100.00 10.00") }

\* the challan files of a batch: one that no backend can read, one that is no
\* challan, a challan, and a challan whose field extraction raises
BatchChallans ==
    { [pdf_bytes |-> [plumber |-> None, mupdf |-> None], fault |-> FALSE],
      [pdf_bytes |-> [plumber |-> Some(<<Some("Invoice 42")>>), mupdf |-> None],
       fault |-> FALSE],
      [pdf_bytes |-> [plumber |-> Some(<<Some(MupdfPageText)>>), mupdf |-> None],
       fault |-> FALSE],
      [pdf_bytes |-> [plumber |-> Some(<<Some(MupdfPageText)>>), mupdf |-> None],
       fault |-> TRUE] }

BatchInit ==
    /\ batch_pc \in {"ecr", "challan"}
    /\ \E n \in 1..MaxFiles : uploaded_files = SubSeq(FileNames, 1, n)
    /\ file_i = 0 /\ all_data = <<>> /\ successful_files = <<>> /\ failed_files = <<>>
    /\ results = <<>>
    /\ IF batch_pc = "ecr" THEN page_pool = BatchPages /\ EcrFresh ELSE EcrIdle
    /\ RowIdle /\ ValIdle /\ ChIdle /\ NumIdle

\* EcrFile with a loop that ends at the first file that failed
EcrFileStopAtFailure ==
    /\ batch_pc = "ecr"
    /\ ecr_pc \in {"done", "failed"}
    /\ IF ecr_result # None
       THEN /\ all_data' = Append(all_data, [filename |-> uploaded_files[file_i + 1],
                                             data |-> Val(ecr_result)])
            /\ successful_files' = Append(successful_files, uploaded_files[file_i + 1])
            /\ UNCHANGED failed_files
       ELSE /\ failed_files' = Append(failed_files, uploaded_files[file_i + 1])
            /\ UNCHANGED <<all_data, successful_files>>
    /\ file_i' = file_i + 1
    /\ IF file_i + 1 < Len(uploaded_files) /\ ecr_result # None
       THEN /\ ecr_pc' = "page" /\ page_num' = 0 /\ page_text' = None /\ lines' = <<>>
            /\ line_i' = 0 /\ header_info' = <<>> /\ summary_info' = <<>>
            /\ employee_data' = <<>> /\ footer_info' = <<>>
            /\ employee_section_started' = FALSE /\ employee_rows' = <<>> /\ row_i' = 0
            /\ ecr_result' = None /\ scanned' = <<>>
            /\ UNCHANGED <<batch_pc, page_pool>>
       ELSE /\ batch_pc' = "done"
            /\ UNCHANGED ecrVars
    /\ UNCHANGED <<uploaded_files, results, rowVars, valVars, chVars, numVars>>

\* lines 1416-1432: extract_esic_data has returned for the file at file_i;
\* the file is counted and the loop goes to the next file, if there is one
EcrFile ==
    /\ batch_pc = "ecr"
    /\ ecr_pc \in {"done", "failed"}
    /\ IF ecr_result # None
       THEN /\ all_data' = Append(all_data, [filename |-> uploaded_files[file_i + 1],
                                             data |-> Val(ecr_result)])
            /\ successful_files' = Append(successful_files, uploaded_files[file_i + 1])
            /\ UNCHANGED failed_files
       ELSE /\ failed_files' = Append(failed_files, uploaded_files[file_i + 1])
            /\ UNCHANGED <<all_data, successful_files>>
    /\ file_i' = file_i + 1
    /\ IF file_i + 1 < Len(uploaded_files)
       THEN /\ ecr_pc' = "page" /\ page_num' = 0 /\ page_text' = None /\ lines' = <<>>
            /\ line_i' = 0 /\ header_info' = <<>> /\ summary_info' = <<>>
            /\ employee_data' = <<>> /\ footer_info' = <<>>
            /\ employee_section_started' = FALSE /\ employee_rows' = <<>> /\ row_i' = 0
            /\ ecr_result' = None /\ scanned' = <<>>
            /\ UNCHANGED <<batch_pc, page_pool>>
       ELSE /\ batch_pc' = "done"
            /\ UNCHANGED ecrVars
    /\ UNCHANGED <<uploaded_files, results, rowVars, valVars, chVars, numVars>>

\* lines 1555-1561: one file of the challan loop
ChallanFile ==
    /\ batch_pc = "challan"
    /\ file_i < Len(uploaded_files)
    /\ \E f \in BatchChallans :
          results' = Append(results,
                            process_single_pdf(f.pdf_bytes, uploaded_files[file_i + 1],
                                               TRUE, TRUE, f.fault).result)
    /\ file_i' = file_i + 1
    /\ batch_pc' = IF file_i + 1 < Len(uploaded_files) THEN batch_pc ELSE "done"
    /\ UNCHANGED <<uploaded_files, all_data, successful_files, failed_files,
                   rowVars, valVars, ecrVars, chVars, numVars>>

BatchNext ==
    \/ EcrNext
    \/ EcrFile
    \/ ChallanFile

SpecBatch == BatchInit /\ [][BatchNext]_vars

(***************************************************************************)
(* Claims about the row field extractor (SpecRow)                          *)
(***************************************************************************)
RecordFields ==
    {"SNo", "IsDisable", "IPNumber", "IPName", "NoOfDays", "TotalWages",
     "IPContribution", "Reason", "Month", "TotalIPContribution",
     "TotalEmployerContribution", "TotalContribution",
     "TotalGovernmentContribution", "TotalMonthlyWages"}

TenDigits(tok) == Len(tok) = IpDigits /\ \A n \in 1..Len(tok) : At(tok, n) \in Digit

\* C1: every record the row extractor emits has an IP Number of exactly 10
\* digits and all its fields; a row with no 10-digit token yields None, never
\* a partial record.
C1_IpNumberTenDigits ==
    row_pc = "done" =>
        /\ employee_record # None =>
              /\ TenDigits(employee_record.IPNumber)
              /\ DOMAIN employee_record = RecordFields
        /\ (\A n \in 1..Len(Split(row_text)) : ~TenDigits(Split(row_text)[n]))
              => employee_record = None

\* a record was emitted for a row that also holds a digit run of another length
C1_Witness ==
    /\ row_pc = "done"
    /\ employee_record # None
    /\ \E n \in 1..Len(Split(row_text)) : Split(row_text)[n] = "12345678901"

\* the match of the row-start shape on the row, and its 10 digits
RowStartMatch == ReSearch(RowStartRe, row_text, FALSE)
RowStartDigits == Group(row_text, RowStartMatch, 6)

RowStartDigitsWhole ==
    \/ RowStartMatch[7] = Len(row_text)
    \/ At(row_text, RowStartMatch[7] + 1) \in Space

NoFalsePositive(c) ==
    \A w \in {"esic", "challan", "employer", "employee", "amount", "total", "period",
              "month", "year", "date", "time", "status", "paid"} :
        ~Contains(StrLower(c), w)

DigitsOnly(c) == \A n \in 1..Len(c) : At(c, n) \in Digit

\* what C8 says the validator accepts
C8_Accepts(c) ==
    /\ Len(c) >= 8
    /\ NoFalsePositive(c)
    /\ \/ (HasAlpha(c) /\ HasDigit(c))
       \/ (DigitsOnly(c) /\ Len(c) >= 12)

\* C8 as stated: the validator accepts a candidate if and only if its length
\* is at least 8, it contains no false-positive substring, and it has both a
\* letter and a digit or is digits-only with length at least 12.
C8_Original == val_pc = "done" => (Val(verdict) <=> C8_Accepts(candidate))


(***************************************************************************)
(* Claims about extract_esic_data (SpecEcr)                                *)
(***************************************************************************)
SummaryKeys ==
    <<"total_ip_contribution", "total_employer_contribution", "total_contribution",
      "total_government_contribution", "total_monthly_wages">>

\* the five totals a record carries, and the five a summary_info gives
RecordTotals(record) ==
    <<record.TotalIPContribution, record.TotalEmployerContribution,
      record.TotalContribution, record.TotalGovernmentContribution,
      record.TotalMonthlyWages>>
CapturedTotals(summary) ==
    [n \in 1..Len(SummaryKeys) |->
        safe_numeric_convert(Get(summary, SummaryKeys[n], ""), FALSE)]

\* C2 as stated: for a multi-page document, every record of the returned data
\* carries the same five totals, the ones the document's summary_info holds,
\* whatever page the totals line is on.
C2_SameTotals ==
    (ecr_pc = "done" /\ page_num >= 2) =>
        \A n \in 1..Len(employee_data) :
            RecordTotals(employee_data[n]) = CapturedTotals(summary_info)

\* a header line of triggers 1: it holds one of the two titles and HeaderRe
\* matches it; and a line of trigger 2
IsHeaderLine(line) ==
    /\ Contains(line, "ECR Of") \/ Contains(line, "Contribution History")
    /\ ReSearch(HeaderRe, line, FALSE) # <<>>
IsOrganizationLine(line) ==
    /\ ~(Contains(line, "ECR Of") \/ Contains(line, "Contribution History"))
    /\ Contains(line, OrganizationName)

HeaderKeys == {"establishment_code", "period", "month", "organization"}

LineHeader(line) ==
    LET Fields(match) ==
            [establishment_code |-> Group(line, match, 3),
             period |-> Group(line, match, 7),
             month |-> extract_month_from_text(line)]
    IN  IF IsHeaderLine(line) THEN Fields(ReSearch(HeaderRe, line, FALSE))
        ELSE IF IsOrganizationLine(line) THEN [organization |-> Strip(line)]
        ELSE <<>>

OccursIn(term, s) ==
    \E i \in 1..(Len(s) - Len(term) + 1) :
        StrLower(SubSeq(s, i, i + Len(term) - 1)) = term
\* how many of the five terms occur in s
TermCount(s) ==
    (IF OccursIn("esic", s) THEN 1 ELSE 0) + (IF OccursIn("challan", s) THEN 1 ELSE 0)
    + (IF OccursIn("employer", s) THEN 1 ELSE 0)
    + (IF OccursIn("transaction", s) THEN 1 ELSE 0)
    + (IF OccursIn("amount", s) THEN 1 ELSE 0)

\* C4: the keyword gate is true if and only if at least 3 of the 5 terms occur
\* in the text, letter case ignored; when it is false for a text that is not
\* empty, process_single_pdf returns not_esic and no extracted field.
C4_KeywordGate ==
    (ch_pc = "done" /\ text # None) =>
        /\ check_esic_keywords(Val(text)) <=> (TermCount(Val(text)) >= 3)
        /\ (Val(text) # "" /\ TermCount(Val(text)) < 3) =>
              /\ Val(result).status = "not_esic"
              /\ "extracted_data" \notin DOMAIN Val(result)
              /\ "tables" \notin DOMAIN Val(result)

\* a text with exactly 3 terms was accepted, its upper-case letters included
C4_Witness ==
    /\ ch_pc = "done" /\ text # None
    /\ TermCount(Val(text)) = 3
    /\ ~Contains(Val(text), "esic")
    /\ Val(result).status = "success"

\* C5: every result has a status among success, not_esic and error; the
\* extracted fields and the tables are there if and only if it is success, and
\* an error message if and only if it is not.
C5_OneBranch ==
    ch_pc = "done" =>
        /\ Val(result).status \in {"success", "not_esic", "error"}
        /\ ("extracted_data" \in DOMAIN Val(result)) <=> (Val(result).status = "success")
        /\ ("tables" \in DOMAIN Val(result)) <=> (Val(result).status = "success")
        /\ ("error" \in DOMAIN Val(result)) <=> (Val(result).status # "success")

\* the extraction raised after the text was read and the gate passed
C5_Witness ==
    /\ ch_pc = "done" /\ fault
    /\ text # None /\ check_esic_keywords(Val(text))
    /\ Val(result).status = "error"

\* the members of a sequence
Range(q) == { q[k] : k \in 1..Len(q) }

\* the candidates of the three phases of the resolver on text t that the
\* validator accepts: the alternatives but the last (by number), the runs of
\* 8 to 20 letters and digits on the lines that hold an indicator, and the
\* runs of 10 to 20 between word boundaries
Phase1Valid(t) ==
    LET Accepted(c) == c # None /\ is_valid_transaction_number(Val(c))
    IN  { n \in 1..(Len(transaction_patterns) - 1) :
            Accepted(Phase1Candidate(t, transaction_patterns[n])) }
Phase2Valid(t) ==
    LET Indicated(line) ==
            \E w \in Range(transaction_indicators) : Contains(StrLower(line), w)
    IN  { c \in UNION { Range(ReFindAll(PotentialRe, line, TRUE)) :
                          line \in { l \in Range(SplitLines(t)) : Indicated(l) } } :
            is_valid_transaction_number(c) }
Phase3Valid(t) == { c \in Range(ReFindAll(CodeRe, t, TRUE)) : is_valid_transaction_number(c) }

\* C7 for the answer of the resolver on text t and the field of the result,
\* p1, p2 and p3 being the accepted candidates of the phases
C7_Ordered(t, answer, field, p1, p2, p3) ==
    /\ answer.phase = 1 =>
          answer.value = Phase1Candidate(t, transaction_patterns[Min(p1)])
    /\ answer.phase = 2 => (p1 = {} /\ Val(answer.value) \in p2)
    /\ answer.phase = 3 => (p1 = {} /\ p2 = {} /\ Val(answer.value) \in p3)
    /\ answer.phase = 0 => (p1 = {} /\ p2 = {} /\ p3 = {} /\ answer.value = None)
    /\ answer.value # None => is_valid_transaction_number(Val(answer.value))
    /\ field = OrNotFound(answer.value)
    /\ field = "Not Found" <=> (p1 = {} /\ p2 = {} /\ p3 = {})
    /\ field # "Not Found" => is_valid_transaction_number(field)

\* C7: the resolver runs its three phases in order and stops at the first
\* candidate the validator accepts: a phase-2 candidate only if no phase-1
\* alternative gave an accepted one, a phase-3 candidate only if phases 1 and
\* 2 gave none, "Not Found" only if no candidate of any phase is accepted; and
\* every value other than "Not Found" is accepted by the validator.
C7_PhasesInOrder ==
    (ch_pc = "done" /\ Val(result).status = "success") =>
        C7_Ordered(Val(text), extract_transaction_number(Val(text), transaction_patterns),
                   Val(result).extracted_data.transaction_number,
                   Phase1Valid(Val(text)), Phase2Valid(Val(text)), Phase3Valid(Val(text)))

\* phase 2 answered, after phase 1 had a candidate and the validator refused it
C7_Witness ==
    /\ ch_pc = "done" /\ Val(result).status = "success"
    /\ extract_transaction_number(Val(text), transaction_patterns).phase = 2
    /\ \E n \in 1..(Len(transaction_patterns) - 1) :
          Phase1Candidate(Val(text), transaction_patterns[n]) # None

\* the alternatives of a simple field that match the text t
Matching(field, t) ==
    { n \in 1..Len(patterns[field]) : ReSearch(patterns[field][n].re, t, TRUE) # <<>> }
\* the trimmed capture of alternative n of a field on t
Capture(field, t, n) ==
    Strip(Group(t, ReSearch(patterns[field][n].re, t, TRUE), patterns[field][n].group))

\* C9 as stated: each simple field is the trimmed capture of its first
\* matching alternative, and it is "Not Found" if and only if no alternative
\* of the field matches.
C9_Original ==
    (ch_pc = "done" /\ Val(result).status = "success") =>
        \A n \in 1..Len(SimpleFields) :
            /\ Matching(SimpleFields[n], Val(text)) # {} =>
                  Val(result).extracted_data[SimpleFields[n]] =
                      Capture(SimpleFields[n], Val(text),
                              Min(Matching(SimpleFields[n], Val(text))))
            /\ Val(result).extracted_data[SimpleFields[n]] = "Not Found"
                  <=> (Matching(SimpleFields[n], Val(text)) = {})

\* what C9 amended says field is on text t
C9_Value(field, t) ==
    IF Matching(field, t) = {} THEN "Not Found"
    ELSE IF Capture(field, t, Min(Matching(field, t))) = "" THEN "Not Found"
    ELSE Capture(field, t, Min(Matching(field, t)))

\* C9 amended: each simple field, whatever the other fields are, is the
\* trimmed capture of its first matching alternative when that capture is not
\* empty, and "Not Found" if and only if no alternative matches or the trimmed
\* capture of the first matching alternative is empty.
C9_Amended ==
    (ch_pc = "done" /\ Val(result).status = "success") =>
        \A n \in 1..Len(SimpleFields) :
            Val(result).extracted_data[SimpleFields[n]] =
                C9_Value(SimpleFields[n], Val(text))

\* two alternatives of employer_code match with different captures and the
\* field is the capture of the first
C9_Witness ==
    /\ ch_pc = "done" /\ Val(result).status = "success"
    /\ Cardinality(Matching("employer_code", Val(text))) >= 2
    /\ Capture("employer_code", Val(text), 1) # Capture("employer_code", Val(text), 2)
    /\ Val(result).extracted_data.employer_code = "4100012345"

\* the first backend gave no text: it is not installed, it raised, or its
\* text is empty
FirstYieldsNoText ==
    \/ ~PDFPLUMBER_AVAILABLE
    \/ extract_text_pdfplumber(pdf_bytes) = None
    \/ extract_text_pdfplumber(pdf_bytes) = Some("")

\* C10 as stated: the second backend is called whenever the first yields no
\* text, a failure or an empty text, and never when the first yields text.
C10_Fallback ==
    (ch_pc = "done" /\ PYMUPDF_AVAILABLE) =>
        (FirstYieldsNoText <=> \E n \in 1..Len(called) : called[n] = "pymupdf")


(***************************************************************************)
(* Claims about the numeric normalizers (SpecNum)                          *)
(***************************************************************************)
\* zero in the mode of the call
NumZero == IF num_is_integer THEN "0" ELSE "0.0"

\* the value with its thousands separators removed, trimmed, as float() reads it
NumParsed == FloatParse(Strip(Replace(num_value, ",", "")))

\* the number the value writes, in the mode of the call: None when float()
\* refuses it, or when int() has no number for it (inf and nan)
NumNumber ==
    IF ~NumParsed.ok THEN None
    ELSE IF ~num_is_integer THEN Some(FloatRepr(NumParsed))
    ELSE IF NumParsed.kind # "finite" THEN None
    ELSE Some(IntRepr(NumParsed))

\* C13: safe_numeric_convert never raises; "-", the empty string, "not found",
\* "n/a" and "error" in any letter case, and every value that fails numeric
\* parsing, give zero (0 in integer mode, 0.0 in decimal mode); any other value
\* gives its number with the thousands separators removed.
C13_NeverRaises ==
    num_pc = "ecr" =>
        /\ Val(num_result) # OverflowError
        /\ IF \/ num_value \in {"-", ""}
              \/ StrLower(num_value) \in {"not found", "n/a", "error"}
              \/ NumNumber = None
           THEN Val(num_result) = NumZero
           ELSE Val(num_result) = Val(NumNumber)

\* the value with the rupee sign and the thousands separators removed
ChallanParsed == FloatParse(Strip(Replace(Replace(num_value, Rupee, ""), ",", "")))

ChallanNumber ==
    IF ~ChallanParsed.ok THEN None
    ELSE IF ~num_is_integer THEN Some(FloatRepr(ChallanParsed))
    ELSE IF ChallanParsed.kind # "finite" THEN None
    ELSE Some(IntRepr(ChallanParsed))

C17_WitnessNone ==
    row_pc = "again" /\ row_text # "" /\ employee_record = None /\ previous_record = None


(***************************************************************************)
(* Claims about the row segmenter (SpecSegment)                            *)
(***************************************************************************)
\* the line the segmenter loop is at, as the loop sees it
SegLine == Strip(lines[line_i + 1])

OpensTable(line) == ReSearch(RowStartRe, line, FALSE) # <<>>
LeadsWithInteger(line) == At(line, 1) \in Digit
EmbedsIp(line) ==
    LET Some_(parts) == \E k \in 2..Len(parts) : TenDigits(parts[k])
    IN  Some_(Split(line))
IsFooterLine(line) ==
    StartsWith(StrLower(line), "page") \/ StartsWith(StrLower(line), "printed")

\* a row-start line comes before the line the loop is at
RowStartBefore == \E j \in 1..line_i : OpensTable(Strip(lines[j]))

\* C18: after a row-start line of the page, a line that starts with an
\* integer, is not row-start shaped and has no 10-digit token at index 1 or
\* later is appended, after one space, to the most recent row and opens no
\* row; one that has such a token opens a new row and leaves the earlier
\* rows as they were.
C18_Continuation ==
    [][ecr_pc = "segment" /\ RowStartBefore /\ LeadsWithInteger(SegLine)
         /\ ~OpensTable(SegLine)
       => IF EmbedsIp(SegLine)
          THEN employee_rows' = Append(employee_rows, SegLine)
          ELSE /\ employee_rows # <<>>
               /\ Len(employee_rows') = Len(employee_rows)
               /\ \A k \in 1..Len(employee_rows) :
                     employee_rows'[k] =
                         IF k = Len(employee_rows)
                         THEN employee_rows[k] \o " " \o SegLine
                         ELSE employee_rows[k]]_vars

\* a line starting with ten digits has been joined to the first row, and the
\* next line, with an IP number inside, has opened the second row
C18_Witness ==
    /\ ecr_pc = "rows"
    /\ employee_rows =
          <<"1 - 1234567890 RAM KUMAR 26 15000.00 1200.00 1234567893 26 15000.00 1200.00",
            "7 KUMAR 1234567892 DEVI 26 100.00 10.00">>

\* C19: once a row-start line has been seen on the page, the first line whose
\* lower-case form starts with "page" or "printed" ends the collection of
\* rows for the page, and no later line of the page opens or extends a row;
\* before any row-start line such a line has no effect and the loop goes on
\* to the next line.
C19_FooterExit ==
    [][/\ ecr_pc = "segment" /\ IsFooterLine(SegLine)
          => /\ employee_rows' = employee_rows
             /\ IF RowStartBefore THEN ecr_pc' = "rows"
                ELSE /\ employee_rows = <<>>
                     /\ ~employee_section_started'
                     /\ line_i + 1 < Len(lines)
                           => ecr_pc' = "segment" /\ line_i' = line_i + 1
       /\ ecr_pc = "rows" => employee_rows' = employee_rows /\ ecr_pc' # "segment"]_vars

\* the footer came second on a page of four lines: the two lines after it,
\* both able to open a row, are in no row
C19_Witness ==
    /\ ecr_pc = "rows"
    /\ Len(lines) = 4 /\ IsFooterLine(lines[2])
    /\ OpensTable(lines[4]) /\ EmbedsIp(lines[3])
    /\ employee_rows = <<lines[1]>>

\* footer lines before and after the only row-start line of a page: the
\* first had no effect, and the row after the second is not collected
C19_WitnessBefore ==
    /\ ecr_pc = "rows"
    /\ Len(lines) = 4 /\ IsFooterLine(lines[1]) /\ IsFooterLine(Strip(lines[3]))
    /\ OpensTable(lines[4])
    /\ employee_rows = <<lines[2]>>

RECURSIVE Openers(_, _, _)
\* the row-opening lines of a page from line j on: the row-start lines and,
\* once one has been seen, the integer-leading lines with an IP number
\* inside, up to the first footer line after a row-start line
Openers(page_lines, j, in_table) ==
    IF j > Len(page_lines) THEN <<>>
    ELSE LET Line(line) ==
                 IF OpensTable(line)
                 THEN <<line>> \o Openers(page_lines, j + 1, TRUE)
                 ELSE IF in_table /\ LeadsWithInteger(line) /\ EmbedsIp(line)
                 THEN <<line>> \o Openers(page_lines, j + 1, in_table)
                 ELSE IF in_table /\ IsFooterLine(line) THEN <<>>
                 ELSE Openers(page_lines, j + 1, in_table)
         IN  Line(Strip(page_lines[j]))

IsPrefix(p, q) == Len(p) <= Len(q) /\ SubSeq(q, 1, Len(p)) = p

\* C20: the rows of a page are one string per row-opening line before the
\* footer, in the order of the lines, each string beginning with its opening
\* line; the rows of a page become records in row order, a page's rows are
\* all handled before the next page is read, and records already collected
\* are never moved or dropped.
C20_RowOrder ==
    /\ [](ecr_pc = "rows"
          => LET Same(openers) ==
                     /\ Len(employee_rows) = Len(openers)
                     /\ \A k \in 1..Len(openers) :
                           StartsWith(employee_rows[k], openers[k])
             IN  Same(Openers(lines, 1, FALSE)))
    /\ [][/\ IsPrefix(employee_data, employee_data')
          /\ employee_data' # employee_data
                => /\ ecr_pc = "rows" /\ row_i < Len(employee_rows)
                   /\ row_i' = row_i + 1
                   /\ Len(employee_data') = Len(employee_data) + 1
                   /\ employee_data'[Len(employee_data')].IPNumber
                         \in Range(Split(employee_rows[row_i + 1]))
          /\ page_num' # page_num => row_i = Len(employee_rows)]_vars

\* two pages of two rows each have given four records, page by page and row
\* by row
C20_Witness ==
    /\ ecr_pc = "done" /\ page_num = 2
    /\ [k \in 1..Len(employee_data) |-> employee_data[k].IPNumber]
          = <<"1234567890", "1234567892", "1234567890", "1234567892">>

(***************************************************************************)
(* Claims about the summary totals (SpecSummary)                           *)
(***************************************************************************)
\* the line the header loop is at, and the one after it on the page
HeaderLoopLine == lines[line_i + 1]
HeaderLoopNext == IF line_i + 1 < Len(lines) THEN lines[line_i + 2] ELSE ""

CarriesLabels(line) ==
    Contains(line, "Total IP Contribution") /\ Contains(line, "Total Employer Contribution")

\* the line fires the header trigger or the organization trigger
FiresEarlier(line) ==
    \/ Contains(line, "ECR Of")
    \/ Contains(line, "Contribution History")
    \/ Contains(line, OrganizationName)

\* all five totals from the first five tokens, or the totals as they were
AllOrNothing(tokens) ==
    IF Len(tokens) >= 5
    THEN /\ DOMAIN summary_info' = Range(SummaryKeys)
         /\ summary_info'.total_ip_contribution = tokens[1]
         /\ summary_info'.total_employer_contribution = tokens[2]
         /\ summary_info'.total_contribution = tokens[3]
         /\ summary_info'.total_government_contribution = tokens[4]
         /\ summary_info'.total_monthly_wages = tokens[5]
    ELSE summary_info' = summary_info

\* C12: when a line carrying both totals labels is followed by a line with
\* fewer than five numeric tokens, or by no line, the summary totals are left
\* exactly as they were; when the next line has five or more tokens, all five
\* totals are replaced together by the first five, also when they were set.
C12_Original ==
    [][ecr_pc = "header" /\ CarriesLabels(HeaderLoopLine)
       => AllOrNothing(ReFindAll(AmountRe, HeaderLoopNext, FALSE))]_vars

\* C12, amended: the same, for a labels line that carries neither "ECR Of"
\* nor "Contribution History" nor the name of the organization; a labels
\* line that does leaves the totals as they were, whatever follows it.
C12_Amended ==
    [][ecr_pc = "header" /\ CarriesLabels(HeaderLoopLine)
       => IF FiresEarlier(HeaderLoopLine) THEN summary_info' = summary_info
          ELSE AllOrNothing(ReFindAll(AmountRe, HeaderLoopNext, FALSE))]_vars

\* totals set on the first page have been replaced on the second, by the
\* first five of six tokens
C12_Witness ==
    /\ scanned = <<"Total IP Contribution Total Employer Contribution",
                   "10.00 20.00 30.00 40.00 50.00",
                   "Total IP Contribution Total Employer Contribution">>
    /\ Len(lines) = 2 /\ lines[2] = "1,000.50 2 3 4 5 6"
    /\ summary_info # <<>>
    /\ summary_info =
          [total_ip_contribution |-> "1,000.50", total_employer_contribution |-> "2",
           total_contribution |-> "3", total_government_contribution |-> "4",
           total_monthly_wages |-> "5"]

\* totals set on the first page have been kept on the second, where four
\* tokens follow the labels
C12_WitnessKept ==
    /\ scanned = <<"Total IP Contribution Total Employer Contribution",
                   "10.00 20.00 30.00 40.00 50.00",
                   "Total IP Contribution Total Employer Contribution">>
    /\ Len(lines) = 2 /\ lines[2] = "7.00 8.00 9.00 1.00"
    /\ summary_info # <<>> /\ summary_info.total_ip_contribution = "10.00"

(***************************************************************************)
(* Claims about the month of the header (SpecHeader)                       *)
(***************************************************************************)
\* the line fires the header trigger and matches the header pattern
HeaderMatches(line) ==
    /\ Contains(line, "ECR Of") \/ Contains(line, "Contribution History")
    /\ ReSearch(HeaderRe, line, FALSE) # <<>>

\* the letters a token starts with
LeadingRun(tok) ==
    SubSeq(tok, 1, Max({0} \cup { k \in 1..Len(tok) :
                                    \A j \in 1..k : At(tok, j) \in Alpha }))

InTable(run) == StrCapitalize(run) \in DOMAIN month_mapping

\* the month name of a period token: the full name of its abbreviation, or
\* its capitalized leading run
MonthOf(period) ==
    IF InTable(LeadingRun(period)) THEN month_mapping[StrCapitalize(LeadingRun(period))]
    ELSE StrCapitalize(LeadingRun(period))

\* C15: on a header line that matches the header pattern, the month is the
\* full month name of the period token's leading alphabetic run when that is
\* one of the 12 abbreviations, and the capitalized run itself otherwise,
\* never "Not Found".
C15_MonthOfPeriod ==
    [][ecr_pc = "header" /\ HeaderMatches(HeaderLoopLine)
       => /\ header_info'.month = MonthOf(header_info'.period)
          /\ header_info'.month # "Not Found"]_vars

\* C16: when the header trigger fires on a line, the month is "Not Found"
\* whenever the leading alphabetic run of the period token is none of the 12
\* entries of the abbreviation table.
C16_Original ==
    [][ecr_pc = "header" /\ HeaderMatches(HeaderLoopLine)
         /\ ~InTable(LeadingRun(header_info'.period))
       => header_info'.month = "Not Found"]_vars

\* "for", in any letter case, occurs once in the line
OneFor(line) ==
    Cardinality({ i \in 1..(Len(line) - 2) : StrLower(SubSeq(line, i, i + 2)) = "for" }) = 1

\* C16, amended: when the header trigger fires on a line that matches the
\* header pattern, the month is never "Not Found"; when the period token
\* follows the only "for" of the line and its leading alphabetic run is none
\* of the 12 entries, the month is that run, capitalized.
C16_Amended ==
    [][ecr_pc = "header" /\ HeaderMatches(HeaderLoopLine)
       => /\ header_info'.month # "Not Found"
          /\ OneFor(HeaderLoopLine) /\ ~InTable(LeadingRun(header_info'.period))
                => header_info'.month = StrCapitalize(LeadingRun(header_info'.period))]_vars

\* a header line with an unknown abbreviation has given the month "Xyz"
C16_Witness ==
    /\ scanned # <<>> /\ OneFor(scanned[Len(scanned)])
    /\ header_info # <<>>
    /\ header_info.period = "Xyz2024" /\ header_info.month = "Xyz"

(***************************************************************************)
(* Claims about the batch loops (SpecBatch)                                *)
(***************************************************************************)
RECURSIVE Accepted(_, _, _)
\* the records of the rows that give one, in the order of the rows
Accepted(rows, summary, header) ==
    IF rows = <<>> THEN <<>>
    ELSE LET Record(record) ==
                 IF record = None THEN Accepted(Tail(rows), summary, header)
                 ELSE <<record>> \o Accepted(Tail(rows), summary, header)
         IN  Record(parse_employee_row_improved(Head(rows), summary, header))

\* every file handled so far is reported once, in the order of the batch
Reported ==
    /\ file_i = Len(all_data) + Len(failed_files) + Len(results)
    /\ batch_pc = "done" <=> file_i = Len(uploaded_files)
    /\ \A k \in 1..Len(results) :
          /\ results[k].filename = uploaded_files[k]
          /\ results[k].status \in {"success", "error", "not_esic"}
    /\ Len(successful_files) = Len(all_data)
    /\ \A k \in 1..Len(all_data) : all_data[k].filename = successful_files[k]
    /\ results = <<>>
          => /\ Range(successful_files) \cup Range(failed_files)
                   = Range(SubSeq(uploaded_files, 1, file_i))
             /\ Range(successful_files) \cap Range(failed_files) = {}

\* C11: a row the extractor rejects gives no record, and the rows after it
\* are still handled, in order; a document whose extraction fails (ECR: None;
\* challan: status error or not_esic) is reported and the loop goes on to the
\* next document of the batch, so that at the end every document is reported.
C11_Contained ==
    /\ [](/\ Reported
          /\ ecr_pc = "rows" /\ page_num = 1 /\ row_i = Len(employee_rows)
                => employee_data = Accepted(employee_rows, summary_info, header_info))
    /\ [][/\ ecr_pc = "rows" /\ row_i < Len(employee_rows)
                => /\ row_i' = row_i + 1 /\ ecr_pc' = "rows"
                   /\ employee_rows' = employee_rows
                   /\ IsPrefix(employee_data, employee_data')
                   /\ parse_employee_row_improved(employee_rows[row_i + 1], summary_info,
                                                  header_info) = None
                         => employee_data' = employee_data
          /\ file_i' # file_i
                => /\ file_i' = file_i + 1
                   /\ file_i' < Len(uploaded_files)
                         => /\ batch_pc' = batch_pc
                            /\ batch_pc = "ecr" => ecr_pc' = "page" /\ page_num' = 0]_vars

\* the first document failed, and the second is reported with the records of
\* its first and third row, the second row having been rejected
C11_Witness ==
    /\ batch_pc = "done"
    /\ failed_files = <<"a.pdf">> /\ successful_files = <<"b.pdf">>
    /\ Len(all_data) = 1
    /\ [k \in 1..Len(all_data[1].data.employee_data) |->
           all_data[1].data.employee_data[k].IPNumber] = <<"1234567890", "1234567892">>

\* a challan batch: the first file gave an error, the second is a challan
C11_WitnessChallan ==
    /\ batch_pc = "done" /\ Len(results) = 2
    /\ results[1].status = "error" /\ results[2].status = "success"

(***************************************************************************)
(* Claims about the fields of a record (SpecRow)                           *)
(***************************************************************************)
\* the positions (from 1) of the tokens that are exactly 10 digits
TenDigitPositions(tokens) == { n \in 1..Len(tokens) : TenDigits(tokens[n]) }

\* the position (from 1) of the anchor: the first such token; 0 if none
AnchorOf(tokens) ==
    IF TenDigitPositions(tokens) = {} THEN 0 ELSE Min(TenDigitPositions(tokens))

\* fewer than 6 tokens, no anchor, or an anchor at index 0 or 1
Rejects(tokens) == Len(tokens) < 6 \/ AnchorOf(tokens) < 3

Numeral(s) == s # "" /\ \A n \in 1..Len(s) : At(s, n) \in Digit
NumericToken(tok) ==
    LET Plain(c) ==
            \/ Numeral(c)
            \/ /\ Len(c) >= 4 /\ At(c, Len(c) - 2) = "."
               /\ Numeral(SubSeq(c, 1, Len(c) - 3))
               /\ Numeral(SubSeq(c, Len(c) - 1, Len(c)))
    IN  Plain(Replace(tok, ",", ""))
ReasonKeyword(tok) ==
    StrLower(tok) \in {"no", "work", "left", "service", "servic", "-", "absent"}

\* the position (from 1) of the first data token after the anchor; one past
\* the last token if there is none
FirstDataAfter(tokens, anchor) ==
    Min({ n \in (anchor + 1)..Len(tokens) : NumericToken(tokens[n]) \/ ReasonKeyword(tokens[n]) }
        \cup {Len(tokens) + 1})

\* C22: in every record the name is the tokens strictly between the anchor
\* and the first later token that is numeric or a reason keyword, joined by
\* one space; no token after that first data token is part of the name, and
\* the name is "UNKNOWN" when no token precedes the first data token.
C22_NameOneWay ==
    (row_pc # "call" /\ employee_record # None) =>
        LET Name(tokens, anchor, data) ==
                employee_record.IPName =
                    IF data = anchor + 1 THEN "UNKNOWN"
                    ELSE Join(SubSeq(tokens, anchor + 1, data - 1), " ")
            Anchored(tokens, anchor) == Name(tokens, anchor, FirstDataAfter(tokens, anchor))
        IN  Anchored(Split(row_text), AnchorOf(Split(row_text)))

\* a record whose row has the name token RAM again after the first data
\* token: the name is RAM once
C22_Witness ==
    /\ row_pc = "done"
    /\ employee_record # None
    /\ employee_record.IPName = "RAM"
    /\ SubSeq(Split(row_text), Len(Split(row_text)) - 2, Len(Split(row_text)))
          = <<"RAM", "26", "RAM">>

\* a record whose row has no token between the anchor and the first data token
C22_WitnessUnknown ==
    /\ row_pc = "done"
    /\ employee_record # None
    /\ employee_record.IPName = "UNKNOWN"

\* the numeric tokens after the anchor, in row order, without their commas
NumericAfter(tokens, anchor) ==
    LET Clean(toks) == [n \in 1..Len(toks) |-> Replace(toks[n], ",", "")]
    IN  Clean(SelectSeq(SubSeq(tokens, anchor + 1, Len(tokens)), NumericToken))

\* the digits before the point of a numeric token, and its two places
WholePart(c) == IF Contains(c, ".") THEN SubSeq(c, 1, Len(c) - 3) ELSE c
Places(c) == IF Contains(c, ".") THEN SubSeq(c, Len(c) - 1, Len(c)) ELSE "00"

\* the value of a numeric token as an integer and as a decimal
AsInteger(c) == DropLeadingZeros(WholePart(c))
AsDecimal(c) ==
    DropLeadingZeros(WholePart(c)) \o "."
        \o (IF Places(c) = "00" THEN "0"
            ELSE IF At(Places(c), 2) = "0" THEN At(Places(c), 1) ELSE Places(c))

TheExampleRow == "1 - 1234567890 RAM KUMAR 26 15000.00 1200.00"

\* C23: the numeric tokens n1..nk after the anchor are assigned by their
\* count: none gives days 0, wages 0.00 and contribution 0.00; one gives the
\* contribution only; two give wages and contribution; three or more give
\* days, wages and contribution, the rest being ignored.  The row
\* "1 - 1234567890 RAM KUMAR 26 15000.00 1200.00" gives SNo 1, Is Disable "-",
\* IP Number 1234567890, IP Name RAM KUMAR, 26 days, wages 15000.00,
\* contribution 1200.00 and Reason "-".
C23_ByCount ==
    (row_pc # "call" /\ employee_record # None) =>
        /\ LET Assigned(n, k) ==
                   /\ employee_record.NoOfDays = IF k >= 3 THEN AsInteger(n[1]) ELSE "0"
                   /\ employee_record.TotalWages =
                         IF k >= 3 THEN AsDecimal(n[2])
                         ELSE IF k = 2 THEN AsDecimal(n[1]) ELSE "0.0"
                   /\ employee_record.IPContribution =
                         IF k >= 3 THEN AsDecimal(n[3])
                         ELSE IF k = 2 THEN AsDecimal(n[2])
                         ELSE IF k = 1 THEN AsDecimal(n[1]) ELSE "0.0"
               Numbers(n) == Assigned(n, Len(n))
           IN  Numbers(NumericAfter(Split(row_text), AnchorOf(Split(row_text))))
        /\ row_text = TheExampleRow =>
              /\ employee_record.SNo = "1" /\ employee_record.IsDisable = "-"
              /\ employee_record.IPNumber = "1234567890"
              /\ employee_record.IPName = "RAM KUMAR"
              /\ employee_record.NoOfDays = "26"
              /\ employee_record.TotalWages = "15000.0"
              /\ employee_record.IPContribution = "1200.0"
              /\ employee_record.Reason = "-"

\* the record of a row with five numeric tokens: the first three are taken
C23_Witness ==
    /\ row_pc = "done"
    /\ employee_record # None
    /\ Len(NumericAfter(Split(row_text), AnchorOf(Split(row_text)))) = 5
    /\ employee_record.NoOfDays = "26" /\ employee_record.IPContribution = "1200.0"

\* the record of the example row
C23_WitnessExample ==
    row_pc = "done" /\ row_text = TheExampleRow /\ employee_record # None

\* the tokens from the first data token on that are not numeric
TextAfter(tokens, anchor) ==
    SelectSeq(SubSeq(tokens, FirstDataAfter(tokens, anchor), Len(tokens)),
              LAMBDA tok : ~NumericToken(tok))

\* C24: the Reason of a record is computed from the non-numeric trailing
\* tokens joined by one space: "No Work" if the text contains "No" and "Work";
\* otherwise "Left Service" if it contains "Left" and "Service" or "Servic";
\* otherwise the text itself; and "-" if there are no such tokens.
C24_Reason ==
    (row_pc # "call" /\ employee_record # None) =>
        LET Reason(joined) ==
                employee_record.Reason =
                    IF joined = "" THEN "-"
                    ELSE IF Contains(joined, "No") /\ Contains(joined, "Work")
                    THEN "No Work"
                    ELSE IF Contains(joined, "Left")
                            /\ (Contains(joined, "Service") \/ Contains(joined, "Servic"))
                    THEN "Left Service"
                    ELSE joined
        IN  Reason(Join(TextAfter(Split(row_text), AnchorOf(Split(row_text))), " "))

\* the record of a row that ends with "Left Servic"
C24_Witness ==
    /\ row_pc = "done"
    /\ employee_record # None
    /\ Contains(row_text, "Left Servic") /\ ~Contains(row_text, "Service")
    /\ employee_record.Reason = "Left Service"

\* records with the reasons "No Work", a text of its own, and "-"
C24_WitnessNoWork ==
    row_pc = "done" /\ employee_record # None /\ employee_record.Reason = "No Work"
C24_WitnessRaw ==
    row_pc = "done" /\ employee_record # None /\ employee_record.Reason = "12.5 RAM"
(***************************************************************************)
(* Claims about the triggers of the header loop (SpecSummary)              *)
(***************************************************************************)
\* the first of the three conditions that a line satisfies, in the order of
\* the code
Fires(line) ==
    IF Contains(line, "ECR Of") \/ Contains(line, "Contribution History") THEN "header"
    ELSE IF Contains(line, OrganizationName) THEN "organization"
    ELSE IF CarriesLabels(line) THEN "totals"
    ELSE "none"

RECURSIVE HeaderScan(_, _, _, _)
\* the header loop over the lines of a page, from line i on
HeaderScan(page_lines, i, header, summary) ==
    IF i >= Len(page_lines) THEN [header_info |-> header, summary_info |-> summary]
    ELSE LET Go(a) == HeaderScan(page_lines, i + 1, a.header_info, a.summary_info)
         IN  Go(HeaderStep(page_lines, i, header, summary))

\* a field of the header as it is after the step and as it was before
FieldKept(key) ==
    /\ key \in DOMAIN header_info' <=> key \in DOMAIN header_info
    /\ key \in DOMAIN header_info => header_info'[key] = header_info[key]

\* the first page with text had two lines and its header loop is over
FirstPairScanned == ecr_pc = "segment" /\ scanned = lines /\ Len(lines) = 2

\* the two lines of the first page the other way round give the same
\* header and totals
SwapSame ==
    LET Same(a) == a.header_info = header_info /\ a.summary_info = summary_info
    IN  Same(HeaderScan(<<lines[2], lines[1]>>, 0, <<>>, <<>>))

C25_WitnessOrder ==
    /\ FirstPairScanned
    /\ Fires(lines[1]) = "header" /\ Fires(lines[2]) = "header"
    /\ ~CarriesLabels(lines[1]) /\ ~CarriesLabels(lines[2])
    /\ header_info # <<>> /\ header_info["period"] = "May2024"
    /\ ~SwapSame
(***************************************************************************)
(* Claims about the lines the segmenter passes over (SpecSegment)          *)
(***************************************************************************)
\* the segmenter loop goes on to the next line of the page, or the page has
\* no more lines and its rows are handled
LoopGoesOn ==
    IF line_i + 1 < Len(lines) THEN ecr_pc' = "segment" /\ line_i' = line_i + 1
    ELSE ecr_pc' = "rows"

\* C26: once a row-start line has been seen on the page, a line that is not
\* empty, does not start with a digit and does not start with "page" or
\* "printed" in any letter case is passed over: it is joined to no row, opens
\* no row, and the segmenter stays in the table; an empty line is passed over
\* before and after the first row-start line alike.
C26_PassedOver ==
    [][/\ ecr_pc = "segment"
       /\ \/ SegLine = ""
          \/ /\ RowStartBefore
             /\ ~LeadsWithInteger(SegLine) /\ ~IsFooterLine(SegLine)
       => /\ employee_rows' = employee_rows
          /\ employee_section_started' = employee_section_started
          /\ employee_section_started = RowStartBefore
          /\ LoopGoesOn
          /\ employee_data' = employee_data]_vars

\* empty lines before and inside the table and a line of words inside it
\* have left one row, the row-start line with the continuation that came
\* after them joined to it
C26_Witness ==
    /\ ecr_pc = "rows"
    /\ Len(lines) = 5
    /\ Strip(lines[1]) = "" /\ lines[3] = "" /\ lines[4] = "KUMAR SINGH"
    /\ employee_rows = <<lines[2] \o " " \o lines[5]>>

\* the reason of a short row, on a line of its own, is in no row
C26_WitnessReason ==
    /\ ecr_pc = "rows"
    /\ Len(lines) = 3 /\ lines[3] = "No Work"
    /\ employee_rows = <<lines[1] \o " " \o lines[2]>>
\* C27: the segmenter state and the rows are those of the page alone: the
\* segmenter loop of every page starts outside the table with no row; a line
\* that starts with an integer and comes before the first row-start line of
\* its page opens no row and is joined to no row, the last row of the page
\* before included, and the records of the pages before stay as they are; a
\* page with no text changes neither the header, nor the totals, nor the
\* records, and the next page is read.
C27_PageReset ==
    /\ [](ecr_pc = "segment"
          => /\ employee_section_started <=> RowStartBefore
             /\ line_i = 0 => employee_rows = <<>>)
    /\ [][/\ ( /\ ecr_pc = "segment" /\ ~RowStartBefore
               /\ LeadsWithInteger(SegLine) /\ ~OpensTable(SegLine) )
             => /\ employee_rows = <<>> /\ employee_rows' = <<>>
                /\ ~employee_section_started'
                /\ employee_data' = employee_data
          /\ (page_num' # page_num /\ (page_text' = None \/ page_text' = Some("")))
             => /\ header_info' = header_info /\ summary_info' = summary_info
                /\ employee_data' = employee_data
                /\ ecr_pc' = "page"]_vars

\* the first page has given a record; the second page is one line with an IP
\* number inside and no row-start line before it, and it has no row
C27_Witness ==
    /\ ecr_pc = "rows" /\ page_num = 2
    /\ lines = <<"7 KUMAR 1234567892 DEVI 26 100.00 10.00">>
    /\ employee_rows = <<>>
    /\ Len(employee_data) = 1 /\ employee_data[1].IPNumber = "1234567890"

\* a continuation alone on the second page: the row of the first page has
\* given its record without it
C27_WitnessContinuation ==
    /\ ecr_pc = "done" /\ page_num = 2
    /\ lines = <<"1234567893 26 15000.00 1200.00">>
    /\ Len(scanned) = 2
    /\ Len(employee_data) = 1 /\ employee_data[1].IPName = "RAM KUMAR"
    /\ employee_data[1].IPContribution = "1200.0"

\* a page with no text after a page that gave a record
C27_WitnessNoText ==
    /\ ecr_pc = "page" /\ page_num = 2
    /\ page_text \in {None, Some("")}
    /\ Len(employee_data) = 1
(***************************************************************************)
(* Claims about the moment a record is built (SpecEcr)                     *)
(***************************************************************************)
\* the lines of the page are the last lines the header loop has scanned
PageScanned ==
    /\ Len(lines) <= Len(scanned)
    /\ SubSeq(scanned, Len(scanned) - Len(lines) + 1, Len(scanned)) = lines

\* C28: the records of the rows of a page are built from the header and the
\* totals as they are once every line of that page, and of the pages before,
\* has gone through the header loop, and before the next page is read: a
\* totals or header line below the rows of its page reaches their records; a
\* record, once collected, is never changed; the header and the totals
\* change in the header loop only, so that lines of a later page do not
\* reach the records of an earlier page.
C28_BuiltPerPage ==
    /\ [](ecr_pc = "rows" => PageScanned)
    /\ [][/\ IsPrefix(employee_data, employee_data')
          /\ employee_data' # employee_data
                => /\ ecr_pc = "rows" /\ page_num' = page_num
                   /\ Len(employee_data') = Len(employee_data) + 1
                   /\ RecordTotals(employee_data'[Len(employee_data')])
                         = CapturedTotals(summary_info)
                   /\ employee_data'[Len(employee_data')].Month
                         = Get(header_info, "month", "Not Found")
          /\ (header_info' # header_info \/ summary_info' # summary_info)
                => ecr_pc = "header" /\ page_num' = page_num
          /\ page_num' # page_num => ecr_pc = "page" /\ row_i = Len(employee_rows)]_vars

\* the totals are below the row on the page, and the record has them
C28_Witness ==
    /\ ecr_pc = "done" /\ page_num = 1
    /\ Len(lines) = 3 /\ OpensTable(lines[1]) /\ CarriesLabels(lines[2])
    /\ Len(employee_data) = 1
    /\ RecordTotals(employee_data[1]) = <<"10.0", "20.0", "30.0", "40.0", "50.0">>

\* the header line is below the row on the page, and the record has its month
C28_WitnessMonth ==
    /\ ecr_pc = "done" /\ page_num = 1
    /\ Len(lines) = 2 /\ OpensTable(lines[1]) /\ lines[2] = "ECR Of 123 for Apr2024"
    /\ Len(employee_data) = 1 /\ employee_data[1].Month = "April"

\* the totals are on the second page: the record of the first page has zero
\* totals and the month "Not Found"
C28_WitnessLater ==
    /\ ecr_pc = "done" /\ page_num = 2
    /\ scanned = <<"1 - 1234567890 RAM KUMAR 26 15000.00 1200.00",
                   "Total IP Contribution Total Employer Contribution",
                   "10.00 20.00 30.00 40.00 50.00">>
    /\ Len(lines) = 2
    /\ summary_info # <<>> /\ summary_info.total_ip_contribution = "10.00"
    /\ Len(employee_data) = 1
    /\ RecordTotals(employee_data[1]) = <<"0.0", "0.0", "0.0", "0.0", "0.0">>
    /\ employee_data[1].Month = "Not Found"

\* the header line is on the second page: the record of the first page has
\* the month "Not Found"
C28_WitnessLaterMonth ==
    /\ ecr_pc = "done" /\ page_num = 2
    /\ scanned = <<"1 - 1234567890 RAM KUMAR 26 15000.00 1200.00", "ECR Of 123 for Apr2024">>
    /\ Len(lines) = 1
    /\ header_info # <<>> /\ header_info.month = "April"
    /\ Len(employee_data) = 1 /\ employee_data[1].Month = "Not Found"
(***************************************************************************)
(* Claims about the rows and the row extractor together (SpecSegment)      *)
(***************************************************************************)
\* an integer-leading line that is not row-start shaped and whose only
\* 10-digit token is its second token
AnchoredSecond(line) ==
    /\ LeadsWithInteger(line) /\ ~OpensTable(line)
    /\ TenDigitPositions(Split(line)) = {2}

\* the opening line of the row the row loop is at
RowOpener == Openers(lines, 1, FALSE)[row_i + 1]

\* C29: inside the table a line whose only 10-digit token is its second
\* token opens a row; the continuation lines after it are joined to that row
\* and to no row before it; and the row extractor rejects the row, with or
\* without continuation lines, so that the row gives no record.
C29_SecondTokenRow ==
    [][/\ (ecr_pc = "segment" /\ RowStartBefore /\ AnchoredSecond(SegLine))
             => employee_rows' = Append(employee_rows, SegLine)
       /\ ( /\ ecr_pc = "segment" /\ employee_rows # <<>>
            /\ AnchoredSecond(Openers(lines, 1, FALSE)[Len(employee_rows)])
            /\ LeadsWithInteger(SegLine) /\ ~OpensTable(SegLine) /\ ~EmbedsIp(SegLine) )
             => /\ SubSeq(employee_rows', 1, Len(employee_rows) - 1)
                      = SubSeq(employee_rows, 1, Len(employee_rows) - 1)
                /\ employee_rows'[Len(employee_rows)]
                      = employee_rows[Len(employee_rows)] \o " " \o SegLine
       /\ (ecr_pc = "rows" /\ row_i < Len(employee_rows) /\ AnchoredSecond(RowOpener))
             => /\ parse_employee_row_improved(employee_rows[row_i + 1], summary_info,
                                               header_info) = None
                /\ employee_data' = employee_data
                /\ row_i' = row_i + 1]_vars

\* a row-start line, a line with its only IP number second, and a
\* continuation: the continuation is in the second row, the second row has
\* given no record, and the first row has given its record
C29_Witness ==
    /\ ecr_pc = "rows" /\ page_num = 1 /\ row_i = 2
    /\ Len(lines) = 3 /\ AnchoredSecond(lines[2])
    /\ employee_rows = <<lines[1], lines[2] \o " " \o lines[3]>>
    /\ Len(Split(employee_rows[2])) >= 6
    /\ Len(employee_data) = 1 /\ employee_data[1].IPNumber = "1234567890"
\* the IP number, the serial number and the disability marker that the
\* tokens of a line give by their places: the anchor, the first token when it
\* is all digits and "1" otherwise, and the token before the anchor
PlacedFields(tokens) ==
    [IPNumber |-> tokens[AnchorOf(tokens)],
     SNo |-> IF \A n \in 1..Len(tokens[1]) : At(tokens[1], n) \in Digit
             THEN tokens[1] ELSE "1",
     IsDisable |-> tokens[AnchorOf(tokens) - 1]]

\* the same three fields of a record
ThreeFields(record) ==
    [IPNumber |-> record.IPNumber, SNo |-> record.SNo, IsDisable |-> record.IsDisable]

C30_WitnessShort ==
    /\ ecr_pc = "rows" /\ row_i = 1 /\ page_num = 1
    /\ employee_rows = <<"2 - 1234567891 SITA 26 15000.00 1200.00">>
    /\ Len(employee_data) = 1 /\ employee_data[1].IPNumber = "1234567891"
    /\ employee_data[1].SNo = "2"
=============================================================================
